---- MODULE Spec2Model ----
(***************************************************************************)
(* Verification model of doc-agent: the Diff Engine (DiffAnalyzer), the    *)
(* Documentation Index and Reference Finder (DocumentationMapper), the     *)
(* Agent Orchestrator (AgentController), the review collaborator           *)
(* (ReviewInterface) and the retry loop of the update generator            *)
(* (AIDocumentationGenerator).                                             *)
(*                                                                         *)
(* Strings that the code inspects character by character (documentation    *)
(* lines, API names) are sequences of one-character strings.  Strings the  *)
(* code only compares for equality (signatures, return types, doc         *)
(* comments) are TLA+ strings.                                             *)
(***************************************************************************)
EXTENDS Naturals, Integers, Sequences, FiniteSets, TLC

VARIABLES
    oldCode,      \* ParsedCode.apis handed to analyze as oldCode
    newCode,      \* ParsedCode.apis handed to analyze as newCode
    diff,         \* the APIDiff the last DiffAnalyzer call worked on
    diffCall,     \* the last DiffAnalyzer call and what it returned
    fsDocs,       \* documentation files on disk, in directory order
    docIndex,     \* DocumentationMapper.docIndex, in Map insertion order
    mapCall,      \* the last DocumentationMapper query and what it returned
    pc,           \* where AgentController.run stands
    input,        \* what the change detector yields, config.minSeverity, autoApprove
    changes,      \* run: const changes
    diffs,        \* run: diffs, then filteredDiffs
    affectedDocs, \* run: const affectedDocs
    updates,      \* run: const updates
    decisions,    \* run: const decisions
    errors,       \* run: const errors
    cursor,       \* index of the loop the run is in (1-based)
    appliedCount, \* applyApprovedUpdates: let appliedCount
    result,       \* the AgentResult run resolved to
    calls,        \* external calls made by the run, in order
    writes,       \* the writeDocumentationFile calls made by the run, in order
    external,     \* changes other processes made to the documentation files
    metrics,      \* this.state.metrics of the controller
    runs,         \* the number of run calls made on the controller
    indexBuilds,  \* the number of DocumentationMapper.initialize calls so far
    otherBuilds,  \* how many of them were made by other run calls in flight
    review,       \* a presentBatch call: its updates, its decisions and its place
    logFile,      \* the decision log on disk
    logged,       \* the logDecision calls made, in order, and how they ended
    gen           \* a generateUpdate call: its attempts and how it ended

diffVars == <<oldCode, newCode, diff, diffCall>>
mapVars == <<fsDocs, docIndex, mapCall>>
sessionVars == <<metrics, runs, indexBuilds, otherBuilds>>
reviewVars == <<review, logFile, logged>>
genVars == <<gen>>
ctlVars == <<pc, input, changes, diffs, affectedDocs, updates, decisions, errors,
             cursor, appliedCount, result, calls, writes, external, sessionVars,
             reviewVars, genVars>>
vars == <<oldCode, newCode, diff, diffCall, fsDocs, docIndex, mapCall,
          pc, input, changes, diffs, affectedDocs, updates, decisions, errors,
          cursor, appliedCount, result, calls, writes, external,
          metrics, runs, indexBuilds, otherBuilds, review, logFile, logged, gen>>

(***************************************************************************)
(* Bounds                                                                  *)
(***************************************************************************)
\* longest apis array handed to analyze
MaxApis == 2
\* most entries (over all four buckets) of a hand-built APIDiff
MaxDiffSize == 2
\* most documentation files on disk
MaxFiles == 2
\* most code changes the detector reports to one run
MaxChanges == 2
\* most code changes and documentation files (together) one run works on
MaxRunInput == 4
\* most changes other processes make to the documentation during one run
MaxExternal == 1
\* most updates handed to one presentBatch call
MaxReviewUpdates == 3
\* most run calls made one after the other on one controller
MaxSessionRuns == 2
\* most index builds made by other run calls in flight
MaxOtherBuilds == 1
\* most code changes and most documentation files of a repeated run
MaxSessionChanges == 1
MaxSessionFiles == 1
\* longest parameter list of a compared API element
MaxParams == 2
\* largest maxRetries of a generator; 3 is the default of the constructor
MaxRetries == 3

(***************************************************************************)
(* Generic helpers                                                         *)
(***************************************************************************)
\* the JavaScript value undefined of an optional string field
Undefined == "undefined"

SeqsUpTo(S, n) == UNION {[1..k -> S] : k \in 0..n}

Range(s) == {s[i] : i \in 1..Len(s)}

\* template-literal rendering of a small array length
DecimalString(n) ==
    IF n < 10 THEN <<"0", "1", "2", "3", "4", "5", "6", "7", "8", "9">>[n + 1]
    ELSE "many"

(***************************************************************************)
(* API elements (types/index.ts).  type and location are carried by        *)
(* the code but read by neither DiffAnalyzer nor DocumentationMapper.      *)
(***************************************************************************)
NoParameters == [defined |-> FALSE, items |-> <<>>]
Parameters(items) == [defined |-> TRUE, items |-> items]

APIElement(name, isPublic, signature, parameters, returnType, documentation) ==
    [name |-> name, isPublic |-> isPublic, signature |-> signature,
     parameters |-> parameters, returnType |-> returnType,
     documentation |-> documentation]

\* API names as character sequences: getUser, getUserById, getUser$
NameGetUser == <<"g">>
NameGetUserById == <<"g", "B">>
NameGetUserDollar == <<"g", "$">>

ChangeDetailTypes == {"signature", "parameters", "return_type", "documentation"}
ChangeSeverities == {"patch", "minor", "major", "breaking"}

(***************************************************************************)
(* DiffAnalyzer (src/diff/DiffAnalyzer.ts)                                 *)
(***************************************************************************)
\* Map.has on the name-keyed map built by apis.forEach(api => map.set(..))
MapHas(apis, name) == \E i \in 1..Len(apis) : apis[i].name = name

\* Map.get on that map: a later set of the same key overwrites the earlier
MapGet(apis, name) ==
    LET last == CHOOSE i \in 1..Len(apis) :
                    /\ apis[i].name = name
                    /\ \A j \in (i + 1)..Len(apis) : apis[j].name # name
    IN  apis[last]

\* oldAPI.parameters || []
ParamsOrEmpty(api) == IF api.parameters.defined THEN api.parameters.items ELSE <<>>

\* returnType || the string void
ReturnOrVoid(returnType) ==
    IF returnType = Undefined \/ returnType = "" THEN "void" ELSE returnType

\* the comparison of two parameters without the default values
ParameterDiffersIgnoringDefault(oldParam, newParam) ==
    \/ oldParam.name # newParam.name
    \/ oldParam.type # newParam.type
    \/ oldParam.optional # newParam.optional

\* the condition of the loop of compareParameters
ParameterDiffers(oldParam, newParam) ==
    \/ oldParam.name # newParam.name
    \/ oldParam.type # newParam.type
    \/ oldParam.optional # newParam.optional
    \/ oldParam.defaultValue # newParam.defaultValue

\* compareParameters: <<>> for undefined, else the one ChangeDetail
compareParameters(oldAPI, newAPI) ==
    LET oldParams == ParamsOrEmpty(oldAPI)
        newParams == ParamsOrEmpty(newAPI)
        differing == {i \in 1..Len(oldParams) :
                         ParameterDiffers(oldParams[i], newParams[i])}
    IN  IF Len(oldParams) # Len(newParams)
        THEN <<[type |-> "parameters",
                description |-> <<"Parameter count changed from",
                                  DecimalString(Len(oldParams)), "to",
                                  DecimalString(Len(newParams))>>]>>
        ELSE IF differing # {}
        THEN LET first == CHOOSE i \in differing : \A j \in differing : i <= j
             IN  <<[type |-> "parameters",
                    description |-> <<"Parameter", oldParams[first].name,
                                      "changed">>]>>
        ELSE <<>>

\* compareAPIs with mutually exclusive checks: the first match only
compareAPIsFirstMatch(oldAPI, newAPI) ==
    LET signatureChange ==
            IF oldAPI.signature # newAPI.signature
            THEN <<[type |-> "signature",
                    description |-> <<"Signature changed from", oldAPI.signature,
                                      "to", newAPI.signature>>]>>
            ELSE <<>>
        returnChange ==
            IF oldAPI.returnType # newAPI.returnType
            THEN <<[type |-> "return_type",
                    description |-> <<"Return type changed from",
                                      ReturnOrVoid(oldAPI.returnType), "to",
                                      ReturnOrVoid(newAPI.returnType)>>]>>
            ELSE <<>>
        documentationChange ==
            IF oldAPI.documentation # newAPI.documentation
            THEN <<[type |-> "documentation",
                    description |-> <<"Documentation was updated">>]>>
            ELSE <<>>
        all == signatureChange \o compareParameters(oldAPI, newAPI)
                   \o returnChange \o documentationChange
    IN  IF all = <<>> THEN <<>> ELSE <<Head(all)>>

\* compareAPIs: the four checks in turn, each pushing at most one detail
compareAPIs(oldAPI, newAPI) ==
    LET signatureChange ==
            IF oldAPI.signature # newAPI.signature
            THEN <<[type |-> "signature",
                    description |-> <<"Signature changed from", oldAPI.signature,
                                      "to", newAPI.signature>>]>>
            ELSE <<>>
        returnChange ==
            IF oldAPI.returnType # newAPI.returnType
            THEN <<[type |-> "return_type",
                    description |-> <<"Return type changed from",
                                      ReturnOrVoid(oldAPI.returnType), "to",
                                      ReturnOrVoid(newAPI.returnType)>>]>>
            ELSE <<>>
        documentationChange ==
            IF oldAPI.documentation # newAPI.documentation
            THEN <<[type |-> "documentation",
                    description |-> <<"Documentation was updated">>]>>
            ELSE <<>>
    IN  signatureChange \o compareParameters(oldAPI, newAPI)
            \o returnChange \o documentationChange

EmptyDiff == [added |-> <<>>, removed |-> <<>>, modified |-> <<>>, unchanged |-> <<>>]

analyze(oldApis, newApis) ==
    LET IsAdded(newAPI) == ~MapHas(oldApis, newAPI.name)
        IsRemoved(oldAPI) == ~MapHas(newApis, oldAPI.name)
        InBoth(oldAPI) == MapHas(newApis, oldAPI.name)
        Changes(oldAPI) == compareAPIs(oldAPI, MapGet(newApis, oldAPI.name))
        IsModified(oldAPI) == Len(Changes(oldAPI)) > 0
        IsUnchanged(oldAPI) == ~IsModified(oldAPI)
        both == SelectSeq(oldApis, InBoth)
        changed == SelectSeq(both, IsModified)
    IN  [added |-> SelectSeq(newApis, IsAdded),
         removed |-> SelectSeq(oldApis, IsRemoved),
         modified |-> [i \in 1..Len(changed) |->
                          [old |-> changed[i],
                           new |-> MapGet(newApis, changed[i].name),
                           changes |-> Changes(changed[i])]],
         unchanged |-> SelectSeq(both, IsUnchanged)]

\* isPublicAPIChange looking only at the old side of a modified pair
isPublicAPIChangeOldSideOnly(d) ==
    \/ \E i \in 1..Len(d.added) : d.added[i].isPublic
    \/ \E i \in 1..Len(d.removed) : d.removed[i].isPublic
    \/ \E i \in 1..Len(d.modified) : d.modified[i].old.isPublic

\* isPublicAPIChange without the test of the removed APIs
isPublicAPIChangeIgnoringRemoved(d) ==
    \/ \E i \in 1..Len(d.added) : d.added[i].isPublic
    \/ \E i \in 1..Len(d.modified) :
           d.modified[i].old.isPublic \/ d.modified[i].new.isPublic

isPublicAPIChange(d) ==
    LET hasPublicAdded == \E i \in 1..Len(d.added) : d.added[i].isPublic
        hasPublicRemoved == \E i \in 1..Len(d.removed) : d.removed[i].isPublic
        hasPublicModified ==
            \E i \in 1..Len(d.modified) :
                d.modified[i].old.isPublic \/ d.modified[i].new.isPublic
    IN  hasPublicAdded \/ hasPublicRemoved \/ hasPublicModified

\* calculateSeverity without the guards on mod.old.isPublic
calculateSeverityAnyVisibility(d) ==
    LET HasKind(m, kinds) == \E k \in 1..Len(m.changes) : m.changes[k].type \in kinds
    IN  IF \/ \E i \in 1..Len(d.removed) : d.removed[i].isPublic
           \/ \E i \in 1..Len(d.modified) :
                  HasKind(d.modified[i], {"parameters", "return_type"})
        THEN "breaking"
        ELSE IF \E i \in 1..Len(d.added) : d.added[i].isPublic THEN "major"
        ELSE IF \E i \in 1..Len(d.modified) :
                    HasKind(d.modified[i], ChangeDetailTypes \ {"documentation"})
        THEN "minor"
        ELSE "patch"

\* calculateSeverity testing for added public APIs before removed ones
calculateSeverityAddedFirst(d) ==
    LET HasKind(m, kinds) == \E k \in 1..Len(m.changes) : m.changes[k].type \in kinds
    IN  IF \E i \in 1..Len(d.added) : d.added[i].isPublic THEN "major"
        ELSE IF \/ \E i \in 1..Len(d.removed) : d.removed[i].isPublic
                \/ \E i \in 1..Len(d.modified) :
                       /\ d.modified[i].old.isPublic
                       /\ HasKind(d.modified[i], {"parameters", "return_type"})
        THEN "breaking"
        ELSE IF \E i \in 1..Len(d.modified) :
                    /\ d.modified[i].old.isPublic
                    /\ HasKind(d.modified[i], ChangeDetailTypes \ {"documentation"})
        THEN "minor"
        ELSE "patch"

\* calculateSeverity counting a documentation detail as a non-breaking change
calculateSeverityDocIsMinor(d) ==
    LET HasKind(m, kinds) == \E k \in 1..Len(m.changes) : m.changes[k].type \in kinds
    IN  IF \/ \E i \in 1..Len(d.removed) : d.removed[i].isPublic
           \/ \E i \in 1..Len(d.modified) :
                  /\ d.modified[i].old.isPublic
                  /\ HasKind(d.modified[i], {"parameters", "return_type"})
        THEN "breaking"
        ELSE IF \E i \in 1..Len(d.added) : d.added[i].isPublic THEN "major"
        ELSE IF \E i \in 1..Len(d.modified) :
                    /\ d.modified[i].old.isPublic
                    /\ HasKind(d.modified[i], ChangeDetailTypes)
        THEN "minor"
        ELSE "patch"

calculateSeverity(d) ==
    LET hasRemovedPublicAPI == \E i \in 1..Len(d.removed) : d.removed[i].isPublic
        hasBreakingModification ==
            \E i \in 1..Len(d.modified) :
                /\ d.modified[i].old.isPublic
                /\ \E k \in 1..Len(d.modified[i].changes) :
                       \/ d.modified[i].changes[k].type = "parameters"
                       \/ d.modified[i].changes[k].type = "return_type"
        hasAddedPublicAPI == \E i \in 1..Len(d.added) : d.added[i].isPublic
        hasNonBreakingModification ==
            \E i \in 1..Len(d.modified) :
                /\ d.modified[i].old.isPublic
                /\ \E k \in 1..Len(d.modified[i].changes) :
                       d.modified[i].changes[k].type # "documentation"
        hasDocumentationChange ==
            \E i \in 1..Len(d.modified) :
                \E k \in 1..Len(d.modified[i].changes) :
                    d.modified[i].changes[k].type = "documentation"
    IN  IF hasRemovedPublicAPI \/ hasBreakingModification THEN "breaking"
        ELSE IF hasAddedPublicAPI THEN "major"
        ELSE IF hasNonBreakingModification THEN "minor"
        ELSE IF hasDocumentationChange THEN "patch"
        ELSE "patch"

(***************************************************************************)
(* Text helpers: String.prototype.split('\n'), Array.prototype.join('\n')  *)
(* and the regular expression \b<name>\b                                   *)
(***************************************************************************)
Newline == "\n"

\* the character U+0060 of a code fence
Backquote == "BACKQUOTE"

\* the characters matched by \w
WordChars ==
    {"a", "b", "c", "d", "e", "f", "g", "h", "i", "j", "k", "l", "m", "n", "o",
     "p", "q", "r", "s", "t", "u", "v", "w", "x", "y", "z",
     "A", "B", "C", "D", "E", "F", "G", "H", "I", "J", "K", "L", "M", "N", "O",
     "P", "Q", "R", "S", "T", "U", "V", "W", "X", "Y", "Z",
     "0", "1", "2", "3", "4", "5", "6", "7", "8", "9", "_"}

RECURSIVE Join(_, _)
Join(lines, sep) ==
    IF Len(lines) = 0 THEN <<>>
    ELSE IF Len(lines) = 1 THEN lines[1]
    ELSE lines[1] \o <<sep>> \o Join(Tail(lines), sep)

RECURSIVE Split(_, _)
\* the pieces of text between occurrences of sep; never empty
Split(text, sep) ==
    IF \A i \in 1..Len(text) : text[i] # sep THEN <<text>>
    ELSE LET at == CHOOSE i \in 1..Len(text) :
                       text[i] = sep /\ \A j \in 1..(i - 1) : text[j] # sep
         IN  <<SubSeq(text, 1, at - 1)>> \o Split(SubSeq(text, at + 1, Len(text)), sep)

\* is text[k] a word character; positions outside the text are not
IsWordAt(text, k) == k >= 1 /\ k <= Len(text) /\ text[k] \in WordChars

\* \b between text[k] and text[k + 1]
WordBoundary(text, k) == IsWordAt(text, k) # IsWordAt(text, k + 1)

\* new RegExp of \b + escapeRegex(name) + \b, tested on text: escapeRegex makes
\* every character of name match itself
MatchesWholeWord(text, name) ==
    \E start \in 1..(Len(text) - Len(name) + 1) :
        /\ SubSeq(text, start, start + Len(name) - 1) = name
        /\ WordBoundary(text, start - 1)
        /\ WordBoundary(text, start + Len(name) - 1)

(***************************************************************************)
(* DocumentationMapper (src/mapping/DocumentationMapper.ts)                *)
(***************************************************************************)
\* path.extname(filePath).toLowerCase() is '.md' or '.mdx'
isMarkdownFile(filePath) == filePath.ext \in {".md", ".mdx"}

\* initialize: docIndex.clear(), then every markdown file in scan order
initialize(files) ==
    LET IsDoc(f) == isMarkdownFile(f.path)
    IN  SelectSeq(files, IsDoc)

\* the DocReference entries of one indexed file
FileReferences(entry, apiName) ==
    LET lines == Split(entry.content, Newline)
        Matches(i) == MatchesWholeWord(lines[i], apiName)
        hits == SelectSeq([i \in 1..Len(lines) |-> i], Matches)
        Context(i) ==
            LET contextStart == IF i - 1 > 1 THEN i - 1 ELSE 1
                contextEnd == IF i + 1 < Len(lines) THEN i + 1 ELSE Len(lines)
            IN  Join(SubSeq(lines, contextStart, contextEnd), Newline)
    IN  [k \in 1..Len(hits) |->
            [filePath |-> entry.path, lineNumber |-> hits[k],
             context |-> Context(hits[k]), referenceType |-> "name"]]

RECURSIVE ConcatMap(_, _, _)
\* F(index[1], x) \o F(index[2], x) \o ... in Map iteration order
ConcatMap(F(_, _), index, x) ==
    IF index = <<>> THEN <<>>
    ELSE F(Head(index), x) \o ConcatMap(F, Tail(index), x)

findReferences(index, apiElement) == ConcatMap(FileReferences, index, apiElement.name)

\* the fence regular expression ^FENCE(\w+)? where FENCE is three backquotes:
\* the line starts with a fence; the tag is the longest run of word
\* characters after it
IsFenceStart(line) == Len(line) >= 3 /\ SubSeq(line, 1, 3) = <<Backquote, Backquote, Backquote>>

FenceLanguage(line) ==
    LET stop == CHOOSE k \in 4..(Len(line) + 1) :
                    /\ ~IsWordAt(line, k)
                    /\ \A j \in 4..(k - 1) : IsWordAt(line, j)
    IN  SubSeq(line, 4, stop - 1)

\* the regular expression ^FENCE$
IsFenceEnd(line) == line = <<Backquote, Backquote, Backquote>>

RECURSIVE ScanCodeBlocks(_, _, _, _)
\* the for loop of extractCodeBlocks from line i on; st holds its locals
ScanCodeBlocks(lines, filePath, i, st) ==
    IF i > Len(lines) THEN st.blocks
    ELSE IF IsFenceStart(lines[i]) /\ ~st.inCodeBlock
    THEN ScanCodeBlocks(lines, filePath, i + 1,
             [st EXCEPT !.inCodeBlock = TRUE,
                        !.currentLanguage = FenceLanguage(lines[i]),
                        !.blockStartLine = i,
                        !.currentBlock = <<>>])
    ELSE IF IsFenceEnd(lines[i]) /\ st.inCodeBlock
    THEN ScanCodeBlocks(lines, filePath, i + 1,
             [st EXCEPT !.inCodeBlock = FALSE,
                        !.blocks = Append(@,
                            [filePath |-> filePath,
                             code |-> Join(st.currentBlock, Newline),
                             language |-> st.currentLanguage,
                             startLine |-> st.blockStartLine + 1,
                             endLine |-> i - 1]),
                        !.currentBlock = <<>>])
    ELSE IF st.inCodeBlock
    THEN ScanCodeBlocks(lines, filePath, i + 1,
             [st EXCEPT !.currentBlock = Append(@, lines[i])])
    ELSE ScanCodeBlocks(lines, filePath, i + 1, st)

extractCodeBlocks(content, filePath) ==
    ScanCodeBlocks(Split(content, Newline), filePath, 1,
        [blocks |-> <<>>, inCodeBlock |-> FALSE, currentBlock |-> <<>>,
         currentLanguage |-> <<>>, blockStartLine |-> 0])

FileExamples(entry, apiName) ==
    LET Uses(block) == MatchesWholeWord(block.code, apiName)
    IN  SelectSeq(extractCodeBlocks(entry.content, entry.path), Uses)

findCodeExamples(index, apiElement) == ConcatMap(FileExamples, index, apiElement.name)

\* docIndex.get(filePath) || the empty string
IndexContent(index, filePath) ==
    IF \E i \in 1..Len(index) : index[i].path = filePath
    THEN index[CHOOSE i \in 1..Len(index) : index[i].path = filePath].content
    ELSE <<>>

\* a DocFile created for every hit, whether or not the file has one
WithDocFileAlways(index, files, filePath) ==
    Append(files, [path |-> filePath, content |-> IndexContent(index, filePath),
                   references |-> <<>>, examples |-> <<>>])

\* filesMap with the DocFile of filePath created if it is missing
WithDocFile(index, files, filePath) ==
    IF \E i \in 1..Len(files) : files[i].path = filePath THEN files
    ELSE Append(files, [path |-> filePath, content |-> IndexContent(index, filePath),
                        references |-> <<>>, examples |-> <<>>])

RECURSIVE GroupReferences(_, _, _)
GroupReferences(index, files, refs) ==
    IF refs = <<>> THEN files
    ELSE LET ref == Head(refs)
             created == WithDocFile(index, files, ref.filePath)
         IN  GroupReferences(index,
                 [i \in 1..Len(created) |->
                     IF created[i].path = ref.filePath
                     THEN [created[i] EXCEPT !.references = Append(@, ref)]
                     ELSE created[i]],
                 Tail(refs))

RECURSIVE GroupExamples(_, _, _)
GroupExamples(index, files, examples) ==
    IF examples = <<>> THEN files
    ELSE LET example == Head(examples)
             created == WithDocFile(index, files, example.filePath)
         IN  GroupExamples(index,
                 [i \in 1..Len(created) |->
                     IF created[i].path = example.filePath
                     THEN [created[i] EXCEPT !.examples = Append(@, example)]
                     ELSE created[i]],
                 Tail(examples))

\* [...diff.added, ...diff.removed, ...diff.modified.map((m) => m.old)]
changedAPIsOldSide(d) ==
    d.added \o d.removed \o [i \in 1..Len(d.modified) |-> d.modified[i].old]

\* [...diff.added, ...diff.removed, ...diff.modified.map((m) => m.new)]
changedAPIs(d) ==
    d.added \o d.removed \o [i \in 1..Len(d.modified) |-> d.modified[i].new]

\* totalReferences += references.length + examples.length
MapOneAPICountingExamples(index, acc, api) ==
    LET references == findReferences(index, api)
        examples == findCodeExamples(index, api)
    IN  IF Len(references) = 0 /\ Len(examples) = 0 /\ api.isPublic
        THEN [acc EXCEPT !.missingDocs = Append(@, api)]
        ELSE [acc EXCEPT
                 !.totalReferences = @ + Len(references) + Len(examples),
                 !.files = GroupExamples(index,
                               GroupReferences(index, @, references), examples)]

\* missing documentation flagged whatever the visibility of the API
MapOneAPIAnyVisibility(index, acc, api) ==
    LET references == findReferences(index, api)
        examples == findCodeExamples(index, api)
    IN  IF Len(references) = 0 /\ Len(examples) = 0
        THEN [acc EXCEPT !.missingDocs = Append(@, api)]
        ELSE [acc EXCEPT
                 !.totalReferences = @ + Len(references),
                 !.files = GroupExamples(index,
                               GroupReferences(index, @, references), examples)]

\* one iteration of the loop over changedAPIs
MapOneAPI(index, acc, api) ==
    LET references == findReferences(index, api)
        examples == findCodeExamples(index, api)
    IN  IF Len(references) = 0 /\ Len(examples) = 0 /\ api.isPublic
        THEN [acc EXCEPT !.missingDocs = Append(@, api)]
        ELSE [acc EXCEPT
                 !.totalReferences = @ + Len(references),
                 !.files = GroupExamples(index,
                               GroupReferences(index, @, references), examples)]

RECURSIVE MapAPIs(_, _, _)
MapAPIs(index, acc, apis) ==
    IF apis = <<>> THEN acc
    ELSE MapAPIs(index, MapOneAPI(index, acc, Head(apis)), Tail(apis))

mapAffectedDocs(index, d) ==
    MapAPIs(index, [files |-> <<>>, totalReferences |-> 0, missingDocs |-> <<>>],
            changedAPIs(d))

(***************************************************************************)
(* Inputs of the Diff Engine                                               *)
(***************************************************************************)
\* an element as the parser emits it for an exported function f()
BaseElement(name, isPublic) ==
    APIElement(name, isPublic, "f()", Parameters(<<>>), Undefined, Undefined)

\* the same public element with a doc comment added
DocumentedElement(name) ==
    APIElement(name, TRUE, "f()", Parameters(<<>>), Undefined, "doc")

\* the same public element with a return type annotation added
TypedElement(name) ==
    APIElement(name, TRUE, "f(): string", Parameters(<<>>), "string", Undefined)

ApiPool ==
    {BaseElement(n, p) : n \in {NameGetUser, NameGetUserById}, p \in BOOLEAN}
        \cup {DocumentedElement(NameGetUser), TypedElement(NameGetUser)}

ApiInputs == SeqsUpTo(ApiPool, MaxApis)

\* change lists of hand-built diffs, as the tests write them
ChangeListPool ==
    LET Detail(k) == [type |-> k, description |-> <<"Changed">>]
        kindLists == {<<>>} \cup {<<k>> : k \in ChangeDetailTypes}
                        \cup {<<"documentation", "parameters">>,
                              <<"signature", "documentation">>}
    IN  {[i \in 1..Len(ks) |-> Detail(ks[i])] : ks \in kindLists}

GivenElements == {BaseElement(NameGetUser, p) : p \in BOOLEAN}

ModifiedPool ==
    {[old |-> o, new |-> n, changes |-> c] :
        o \in GivenElements, n \in GivenElements, c \in ChangeListPool}

DiffSizes ==
    {n \in [{"added", "removed", "modified", "unchanged"} -> 0..MaxDiffSize] :
        n.added + n.removed + n.modified + n.unchanged <= MaxDiffSize}

\* d is a hand-built APIDiff with at most MaxDiffSize entries in all
IsDiffInput(d) ==
    \E n \in DiffSizes :
        \E a \in [1..n.added -> GivenElements],
           r \in [1..n.removed -> GivenElements],
           m \in [1..n.modified -> ModifiedPool],
           u \in [1..n.unchanged -> GivenElements] :
            d = [added |-> a, removed |-> r, modified |-> m, unchanged |-> u]

\* one entry of APIElement.parameters
Parameter(name, type, optional, defaultValue) ==
    [name |-> name, type |-> type, optional |-> optional,
     defaultValue |-> defaultValue]

\* parameters of the old version: a: string and b: string
OldParameterPool ==
    { Parameter("a", "string", FALSE, Undefined),
      Parameter("b", "string", FALSE, Undefined) }

\* parameters of the new version: those of the old version and a with
\* its type dropped, made optional, or given a default value
ParameterPool ==
    OldParameterPool \cup
        { Parameter("a", Undefined, FALSE, Undefined),
          Parameter("a", "string", TRUE, Undefined),
          Parameter("a", "string", FALSE, "1") }

(***************************************************************************)
(* Diff Engine calls.  diffCall.op is "none" before analyze has run on     *)
(* (oldCode, newCode) and "given" for a diff built by the caller.          *)
(***************************************************************************)
DiffCall(op, analyzed, severity, publicChange) ==
    [op |-> op, analyzed |-> analyzed, severity |-> severity,
     publicChange |-> publicChange]

DiffInit ==
    \/ /\ oldCode \in ApiInputs
       /\ newCode \in ApiInputs
       /\ diff = EmptyDiff
       /\ diffCall = DiffCall("none", FALSE, "unset", FALSE)
    \/ /\ oldCode = <<>>
       /\ newCode = <<>>
       /\ IsDiffInput(diff)
       /\ diffCall = DiffCall("given", FALSE, "unset", FALSE)

DiffIdle ==
    /\ oldCode = <<>>
    /\ newCode = <<>>
    /\ diff = EmptyDiff
    /\ diffCall = DiffCall("none", FALSE, "unset", FALSE)

\* two versions of the element getUser: the signature, the parameter list
\* (missing or of at most MaxParams entries), the return type (missing,
\* empty or string) and the documentation vary independently
CompareInit ==
    \E ko \in 0..MaxParams, kn \in 0..MaxParams :
    \E po \in [1..ko -> OldParameterPool], pn \in [1..kn -> ParameterPool] :
    \E mo \in BOOLEAN, mn \in BOOLEAN :
    \E sn \in {"f()", "f(a)"}, ro \in {Undefined, "string"},
       rn \in {Undefined, "", "string"}, dn \in {Undefined, "doc"} :
        /\ mo => ko = 0
        /\ mn => kn = 0
        /\ oldCode = <<APIElement(NameGetUser, TRUE, "f()",
                           IF mo THEN NoParameters ELSE Parameters(po),
                           ro, Undefined)>>
        /\ newCode = <<APIElement(NameGetUser, TRUE, sn,
                           IF mn THEN NoParameters ELSE Parameters(pn),
                           rn, dn)>>
        /\ diff = EmptyDiff
        /\ diffCall = DiffCall("none", FALSE, "unset", FALSE)

\* diff := analyzer.analyze(oldCode, newCode)
Analyze ==
    /\ diffCall.op = "none"
    /\ diff' = analyze(oldCode, newCode)
    /\ diffCall' = DiffCall("analyze", TRUE, "unset", FALSE)
    /\ UNCHANGED <<oldCode, newCode, mapVars, ctlVars>>

\* analyzer.calculateSeverity(diff)
CalculateSeverity ==
    /\ diffCall.op # "none"
    /\ diffCall' = DiffCall("calculateSeverity", diffCall.analyzed,
                            calculateSeverity(diff), FALSE)
    /\ UNCHANGED <<oldCode, newCode, diff, mapVars, ctlVars>>

\* analyzer.isPublicAPIChange(diff)
IsPublicAPIChange ==
    /\ diffCall.op # "none"
    /\ diffCall' = DiffCall("isPublicAPIChange", diffCall.analyzed,
                            "unset", isPublicAPIChange(diff))
    /\ UNCHANGED <<oldCode, newCode, diff, mapVars, ctlVars>>

(***************************************************************************)
(* Inputs of the Documentation Mapper                                      *)
(***************************************************************************)
DocPath(i) == [dir |-> "docs", name |-> i, ext |-> ".md"]

Text(lines) == Join(lines, Newline)

Fence == <<Backquote, Backquote, Backquote>>

\* documentation texts; g stands for getUser, gB for getUserById and g$B
\* for an identifier that continues getUser$
DocPool ==
    { Text(<< <<"g", "B">> >>),
      Text(<< <<"g">>, <<"g", "B", " ", "g">> >>),
      Text(<< Fence \o <<"t">>, <<"g">>, Fence >>),
      Text(<< <<"g", "$", "B">> >>),
      Text(<< Fence, <<"g", "B">>, Fence, Fence \o <<"t">>, <<"g", "B", " ", "g">> >>) }

\* documentation with code blocks: a tagged block of two lines, an
\* untagged block that uses getUser$ById, a block that is never closed, and
\* a block that opens again inside prose after a closed one
ExampleDocPool ==
    { Text(<< <<"x">>, Fence \o <<"t", "s">>, <<"g">>, <<"g", "B">>, Fence >>),
      Text(<< Fence, <<"g", "$", "B">>, Fence >>),
      Text(<< Fence \o <<"t">>, <<"g">> >>),
      Text(<< Fence, <<"g", "B">>, Fence, <<"g">>, Fence \o <<"t">>, <<"g">>, Fence >>) }

\* elements of a diff handed to mapAffectedDocs
MapElements ==
    {BaseElement(NameGetUser, TRUE), BaseElement(NameGetUser, FALSE),
     BaseElement(NameGetUserById, TRUE)}

MapModifiedPool ==
    {[old |-> BaseElement(NameGetUser, TRUE), new |-> e,
      changes |-> <<[type |-> "signature", description |-> <<"Changed">>]>>] :
        e \in MapElements}

MapUnchangedPool == {BaseElement(NameGetUser, TRUE)}

\* elements looked up on their own
QueryElements ==
    {BaseElement(n, TRUE) : n \in {NameGetUser, NameGetUserById, NameGetUserDollar}}

(***************************************************************************)
(* Documentation Mapper calls                                              *)
(***************************************************************************)
NoApi == BaseElement(<<>>, FALSE)

EmptyAffected == [files |-> <<>>, totalReferences |-> 0, missingDocs |-> <<>>]

MapCall(op, api, d, references, examples, affected) ==
    [op |-> op, api |-> api, diff |-> d, references |-> references,
     examples |-> examples, affected |-> affected]

NoMapCall == MapCall("none", NoApi, EmptyDiff, <<>>, <<>>, EmptyAffected)

MapInit ==
    /\ \E n \in 0..MaxFiles :
           \E c \in [1..n -> DocPool] :
               fsDocs = [i \in 1..n |-> [path |-> DocPath(i), content |-> c[i]]]
    /\ docIndex = <<>>
    /\ mapCall = NoMapCall

\* one documentation file with code blocks is on disk
ExamplesInit ==
    /\ \E c \in ExampleDocPool : fsDocs = <<[path |-> DocPath(1), content |-> c]>>
    /\ docIndex = <<>>
    /\ mapCall = NoMapCall

MapIdle ==
    /\ fsDocs = <<>>
    /\ docIndex = <<>>
    /\ mapCall = NoMapCall

\* await mapper.initialize()
Initialize ==
    /\ mapCall.op = "none"
    /\ docIndex' = initialize(fsDocs)
    /\ mapCall' = MapCall("initialize", NoApi, EmptyDiff, <<>>, <<>>, EmptyAffected)
    /\ UNCHANGED <<fsDocs, diffVars, ctlVars>>

\* await mapper.findReferences(api)
FindReferences ==
    /\ mapCall.op = "initialize"
    /\ \E api \in QueryElements :
           mapCall' = MapCall("findReferences", api, EmptyDiff,
                              findReferences(docIndex, api), <<>>, EmptyAffected)
    /\ UNCHANGED <<fsDocs, docIndex, diffVars, ctlVars>>

\* await mapper.findCodeExamples(api)
FindCodeExamples ==
    /\ mapCall.op = "initialize"
    /\ \E api \in QueryElements :
           mapCall' = MapCall("findCodeExamples", api, EmptyDiff, <<>>,
                              findCodeExamples(docIndex, api), EmptyAffected)
    /\ UNCHANGED <<fsDocs, docIndex, diffVars, ctlVars>>

\* await mapper.mapAffectedDocs(diff)
MapAffectedDocs ==
    /\ mapCall.op = "initialize"
    /\ \E n \in DiffSizes :
           \E a \in [1..n.added -> MapElements],
              r \in [1..n.removed -> MapElements],
              m \in [1..n.modified -> MapModifiedPool],
              u \in [1..n.unchanged -> MapUnchangedPool] :
               LET d == [added |-> a, removed |-> r, modified |-> m, unchanged |-> u]
               IN  mapCall' = MapCall("mapAffectedDocs", NoApi, d, <<>>, <<>>,
                                      mapAffectedDocs(docIndex, d))
    /\ UNCHANGED <<fsDocs, docIndex, diffVars, ctlVars>>

(***************************************************************************)
(* Agent Orchestrator (AgentController): collaborators and pure steps      *)
(***************************************************************************)
CodePath(i) == [dir |-> "src", name |-> i, ext |-> ".ts"]

\* filePath + ".backup": the path ends in .backup, which is no markdown extension
BackupPath(filePath) ==
    [filePath EXCEPT !.ext = IF @ = ".md" THEN ".md.backup" ELSE ".mdx.backup"]

\* a source text: what it is, whether the parser accepts it, and the
\* elements the parser emits for it
SourceText(text, syntaxOk, apis) == [text |-> text, syntaxOk |-> syntaxOk, apis |-> apis]

\* previousContent of a change that has none
NoSource == SourceText(Undefined, TRUE, <<>>)

SrcGetUser == SourceText("getUser", TRUE, <<BaseElement(NameGetUser, TRUE)>>)

SrcGetUserDocumented ==
    SourceText("documented getUser", TRUE, <<DocumentedElement(NameGetUser)>>)

SrcBroken == SourceText("syntax error", FALSE, <<>>)

\* a string in a condition: undefined and the empty string are falsy
Truthy(source) == source.text \notin {Undefined, ""}

CodeChange(changeType, content, previousContent) ==
    [changeType |-> changeType, content |-> content, previousContent |-> previousContent]

\* this.codeParser.parse(code): the parsed apis, or a thrown syntax error
parse(code) == [thrown |-> ~code.syntaxOk, apis |-> code.apis]

\* new Error(prefix + subject + ...)
Failure(prefix, subject) == [message |-> prefix, subject |-> subject]

NoSubject == "none"

\* the body of the loop of parseAndAnalyze for one change: the diffs it
\* pushes and the errors it pushes, here without a diff for a failed file
ParseAndAnalyzeChangeKeepingDiff(change) ==
    LET newParsed == parse(change.content)
        oldParsed == parse(change.previousContent)
        failed == <<Failure("Failed to parse", change.filePath)>>
    IN  IF newParsed.thrown THEN [diffs |-> <<EmptyDiff>>, errors |-> failed]
        ELSE IF Truthy(change.previousContent) /\ change.changeType # "added"
        THEN IF oldParsed.thrown
             THEN [diffs |-> <<[EmptyDiff EXCEPT !.added = newParsed.apis]>>,
                   errors |-> failed]
             ELSE [diffs |-> <<analyze(oldParsed.apis, newParsed.apis)>>, errors |-> <<>>]
        ELSE IF change.changeType = "added"
        THEN [diffs |-> <<[EmptyDiff EXCEPT !.added = newParsed.apis]>>, errors |-> <<>>]
        ELSE [diffs |-> <<>>, errors |-> <<>>]

\* the body of the loop of parseAndAnalyze for one change: the diffs it
\* pushes and the errors it pushes
ParseAndAnalyzeChange(change) ==
    LET newParsed == parse(change.content)
        oldParsed == parse(change.previousContent)
        failed == <<Failure("Failed to parse", change.filePath)>>
    IN  IF newParsed.thrown THEN [diffs |-> <<>>, errors |-> failed]
        ELSE IF Truthy(change.previousContent) /\ change.changeType # "added"
        THEN IF oldParsed.thrown
             THEN [diffs |-> <<>>, errors |-> failed]
             ELSE [diffs |-> <<analyze(oldParsed.apis, newParsed.apis)>>, errors |-> <<>>]
        ELSE IF change.changeType = "added"
        THEN [diffs |-> <<[EmptyDiff EXCEPT !.added = newParsed.apis]>>, errors |-> <<>>]
        ELSE [diffs |-> <<>>, errors |-> <<>>]

\* severityOrder.indexOf(severity)
SeverityIndex(severity) ==
    CASE severity = "patch" -> 0
      [] severity = "minor" -> 1
      [] severity = "major" -> 2
      [] severity = "breaking" -> 3

\* the filter with a strict comparison: a diff rated exactly the minimum is
\* dropped
filterDiffsBySeverityAboveOnly(ds, minSeverity) ==
    LET Kept(d) == SeverityIndex(calculateSeverity(d)) > SeverityIndex(minSeverity)
    IN  SelectSeq(ds, Kept)

\* diffs.filter(severityIndex >= minSeverityIndex)
filterDiffsBySeverity(ds, minSeverity) ==
    LET Kept(d) == SeverityIndex(calculateSeverity(d)) >= SeverityIndex(minSeverity)
    IN  SelectSeq(ds, Kept)

RECURSIVE CombinedDiff(_)
\* diffs.flatMap per bucket
CombinedDiff(ds) ==
    IF ds = <<>> THEN EmptyDiff
    ELSE LET d == Head(ds)
             rest == CombinedDiff(Tail(ds))
         IN  [added |-> d.added \o rest.added,
              removed |-> d.removed \o rest.removed,
              modified |-> d.modified \o rest.modified,
              unchanged |-> d.unchanged \o rest.unchanged]

\* no text: an absent or empty editedContent
NoContent == <<>>

\* the DocumentationUpdate the generator returns for docFile
DocumentationUpdate(docFile, updatedContent) ==
    [filePath |-> docFile.path, originalContent |-> docFile.content,
     updatedContent |-> updatedContent]

ReviewDecision(action, editedContent) == [action |-> action, editedContent |-> editedContent]

\* updates.map(() => ({ action: 'approve' }))
ApproveAllOnReviewFailure(us) ==
    [i \in 1..Len(us) |-> ReviewDecision("approve", NoContent)]

\* updates.map(() => ({ action: 'reject', feedback: 'Review failed' }))
RejectAllOnReviewFailure(us) ==
    [i \in 1..Len(us) |-> ReviewDecision("reject", NoContent)]

\* decision.action === 'approve' || decision.action === 'edit' || 'reject'
IsAppliedAlways(decision) == decision.action \in {"approve", "edit", "reject"}

\* decision.action === 'approve' || decision.action === 'edit'
IsApplied(decision) == decision.action \in {"approve", "edit"}

\* const contentToWrite = decision.action === 'edit' && decision.editedContent ? ... : ...
contentToWrite(update, decision) ==
    IF decision.action = "edit" /\ decision.editedContent # NoContent
    THEN decision.editedContent
    ELSE update.updatedContent

(***************************************************************************)
(* The documentation directory: files in directory order                   *)
(***************************************************************************)
existsSync(disk, filePath) == \E i \in 1..Len(disk) : disk[i].path = filePath

\* the content of an existing file
readFileSync(disk, filePath) ==
    LET i == CHOOSE k \in 1..Len(disk) : disk[k].path = filePath
    IN  disk[i].content

writeFileSync(disk, filePath, content) ==
    IF existsSync(disk, filePath)
    THEN [i \in 1..Len(disk) |->
              IF disk[i].path = filePath THEN [disk[i] EXCEPT !.content = content]
              ELSE disk[i]]
    ELSE Append(disk, [path |-> filePath, content |-> content])

copyFileSync(disk, from, to) == writeFileSync(disk, to, readFileSync(disk, from))

unlinkSync(disk, filePath) ==
    LET Other(f) == f.path # filePath
    IN  SelectSeq(disk, Other)

\* what can happen to one writeDocumentationFile call
WriteFaults == {"none", "copy fails", "write fails"}

\* the file written first and copied to the backup path afterwards
writeDocumentationFileCopyLast(disk, filePath, content, fault) ==
    LET written == IF fault = "none" THEN writeFileSync(disk, filePath, content) ELSE disk
        copied == IF existsSync(disk, filePath) /\ fault = "none"
                  THEN copyFileSync(written, filePath, BackupPath(filePath))
                  ELSE written
    IN  [disk |-> copied, thrown |-> fault # "none"]

\* writeDocumentationFile: the directory afterwards, and whether it threw.
\* The directory of a documentation file exists, so mkdirSync is not reached.
writeDocumentationFile(disk, filePath, content, fault) ==
    LET exists == existsSync(disk, filePath)
        copied == IF exists /\ fault # "copy fails"
                  THEN copyFileSync(disk, filePath, BackupPath(filePath))
                  ELSE disk
    IN  IF exists /\ fault = "copy fails" THEN [disk |-> disk, thrown |-> TRUE]
        ELSE IF fault = "write fails" THEN [disk |-> copied, thrown |-> TRUE]
        ELSE [disk |-> writeFileSync(copied, filePath, content), thrown |-> FALSE]

\* buildResult
AgentResult(success, updatesGenerated, updatesApplied, errs, summary) ==
    [success |-> success, updatesGenerated |-> updatesGenerated,
     updatesApplied |-> updatesApplied, errors |-> errs, summary |-> summary]

\* this.state.metrics as the constructor sets it
NoMetrics == [filesAnalyzed |-> 0, apisChanged |-> 0]

RECURSIVE CountAPIChanges(_)
\* what the loop over filteredDiffs adds to this.state.metrics.apisChanged
CountAPIChanges(ds) ==
    IF ds = <<>> THEN 0
    ELSE Len(Head(ds).added) + Len(Head(ds).removed) + Len(Head(ds).modified)
             + CountAPIChanges(Tail(ds))

\* buildSummary: the parts joined by ". ", m being this.state.metrics
buildSummary(updatesGenerated, updatesApplied, errs, m) ==
    <<"Generated", DecimalString(updatesGenerated), "Applied", DecimalString(updatesApplied)>>
        \o (IF Len(errs) > 0 THEN <<"Encountered", DecimalString(Len(errs))>> ELSE <<>>)
        \o <<"Analyzed", DecimalString(m.filesAnalyzed), "Found", DecimalString(m.apisChanged)>>

\* a short-circuit reported as a failed run
ShortCircuitAsFailure(errs, summary) == AgentResult(FALSE, 0, 0, errs, <<summary>>)

\* return this.buildResult(true, 0, 0, errors, summary)
ShortCircuit(errs, summary) == AgentResult(TRUE, 0, 0, errs, <<summary>>)

\* the catch of run without its return: the error leaves run
PipelineFailedRethrown(updatesGenerated, updatesApplied, errs, error) ==
    [pc |-> "thrown", errors |-> Append(errs, error), result |-> [resolved |-> FALSE]]

\* the catch of run: errors.push(error); return this.buildResult(false, ...)
PipelineFailed(updatesGenerated, updatesApplied, errs, error) ==
    [pc |-> "done", errors |-> Append(errs, error),
     result |-> [resolved |-> TRUE,
                 value |-> AgentResult(FALSE, updatesGenerated, updatesApplied,
                                       Append(errs, error), <<"Pipeline failed">>)]]

\* a run that reports failure as soon as an error was recorded
CompletedFailingOnErrors(updatesGenerated, updatesApplied, errs, m) ==
    AgentResult(errs = <<>>, updatesGenerated, updatesApplied, errs,
                buildSummary(updatesGenerated, updatesApplied, errs, m))

\* a result that reports the per-phase errors nowhere
CompletedWithoutErrors(updatesGenerated, updatesApplied, errs, m) ==
    AgentResult(TRUE, updatesGenerated, updatesApplied, <<>>,
                buildSummary(updatesGenerated, updatesApplied, errs, m))

\* the last return of the try block of run
Completed(updatesGenerated, updatesApplied, errs, m) ==
    AgentResult(TRUE, updatesGenerated, updatesApplied, errs,
                buildSummary(updatesGenerated, updatesApplied, errs, m))

\* the statements of run taken in an order that reviews again after applying
NextPhaseReviewAgain(phase) ==
    CASE phase = "detect" -> "parse"
      [] phase = "parse" -> "filter"
      [] phase = "filter" -> "index"
      [] phase = "index" -> "map"
      [] phase = "map" -> "generate"
      [] phase = "generate" -> "review"
      [] phase = "review" -> "apply"
      [] phase = "apply" -> "review"
      [] phase = "complete" -> "done"

\* the statement order of run: what follows each phase that did not return
NextPhase(phase) ==
    CASE phase = "detect" -> "parse"
      [] phase = "parse" -> "filter"
      [] phase = "filter" -> "index"
      [] phase = "index" -> "map"
      [] phase = "map" -> "generate"
      [] phase = "generate" -> "review"
      [] phase = "review" -> "apply"
      [] phase = "apply" -> "complete"
      [] phase = "complete" -> "done"

\* a write failure that ends the loop of applyApprovedUpdates
AfterWriteStopping(i, n, thrown) == IF thrown THEN n + 1 ELSE i + 1

\* the loop of applyApprovedUpdates goes on after a write, failed or not
AfterWrite(i, n, thrown) == i + 1

\* a generator failure that ends the loop of generateUpdates
AfterGenerateStopping(i, n, thrown) == IF thrown THEN n + 1 ELSE i + 1

\* the loop of generateUpdates goes on after a generator call, failed or not
AfterGenerate(i, n, thrown) == i + 1

(***************************************************************************)
(* Agent Orchestrator: inputs                                              *)
(***************************************************************************)
\* the changes the detector reports for one file; the last is a modified
\* file whose previous content git show could not deliver
ChangePool ==
    { CodeChange("added", SrcGetUser, NoSource),
      CodeChange("modified", SrcGetUserDocumented, SrcGetUser),
      CodeChange("modified", SrcBroken, SrcGetUser),
      CodeChange("modified", SrcGetUser, SrcBroken),
      CodeChange("modified", SrcGetUser, NoSource) }

\* config.minSeverity: everything, or additions and worse
MinSeverityPool == {"patch", "major"}

\* documentation that mentions getUser, and documentation that does not
RunDocPool == { <<"g">>, <<"x">> }

\* what the generator writes, what a reviewer types, what another process writes
GeneratedText == <<"n">>
EditedText == <<"e">>
ExternalText == <<"z">>

DecisionPool ==
    { ReviewDecision("approve", NoContent), ReviewDecision("reject", NoContent),
      ReviewDecision("edit", EditedText), ReviewDecision("edit", NoContent) }

\* new ReviewInterface(): the autoApprove parameter takes its default
DefaultAutoApprove == FALSE

\* the decision lists presentBatch(us) can return
presentBatch(us, autoApprove) ==
    IF autoApprove THEN {[i \in 1..Len(us) |-> ReviewDecision("approve", NoContent)]}
    ELSE [1..Len(us) -> DecisionPool]

\* another run call resuming at every await of this run
OtherRunMayResumeAnywhere(phase) == TRUE

\* what another run call in flight does to the mapper is one job of the event
\* loop, started by the completion of its change detection; it starts only
\* while this run waits for the detector, the generator or the reviewer, or
\* when it has returned: from the return of detectChanges to the first
\* generator call, and from the return of presentBatch to the end, run
\* awaits only promises that are settled without I/O.
OtherRunMayResume(phase) == phase \in {"constructed", "generate", "review", "done"}

NoResult == [resolved |-> FALSE]

Call(name, thrown) == [call |-> name, thrown |-> thrown]

(***************************************************************************)
(* Agent Orchestrator: run, one step per external call                     *)
(***************************************************************************)
\* the controller is constructed, run is not called
ControllerIdle ==
    /\ pc = "constructed"
    /\ input = [changes |-> <<>>, minSeverity |-> "patch", docs |-> <<>>,
                autoApprove |-> FALSE]
    /\ changes = <<>>
    /\ diffs = <<>>
    /\ affectedDocs = EmptyAffected
    /\ updates = <<>>
    /\ decisions = <<>>
    /\ errors = <<>>
    /\ cursor = 1
    /\ appliedCount = 0
    /\ result = NoResult
    /\ calls = <<>>
    /\ writes = <<>>
    /\ external = <<>>
    /\ metrics = NoMetrics
    /\ runs = 0
    /\ indexBuilds = 0
    /\ otherBuilds = 0

\* run is called once on a new controller, without the optional autoApprove
ControllerInit ==
    /\ \E nc \in 0..MaxChanges :
           \E nf \in 0..(MaxRunInput - nc) :
               \E cs \in [1..nc -> ChangePool], fs \in [1..nf -> RunDocPool],
                  minSeverity \in MinSeverityPool :
                   /\ input = [changes |-> [i \in 1..nc |->
                                   [filePath |-> CodePath(i),
                                    changeType |-> cs[i].changeType,
                                    content |-> cs[i].content,
                                    previousContent |-> cs[i].previousContent]],
                               minSeverity |-> minSeverity,
                               docs |-> [i \in 1..nf |->
                                   [path |-> DocPath(i), content |-> fs[i]]],
                               autoApprove |-> FALSE]
                   /\ fsDocs = input.docs
    /\ pc = "constructed"
    /\ changes = <<>>
    /\ diffs = <<>>
    /\ affectedDocs = EmptyAffected
    /\ updates = <<>>
    /\ decisions = <<>>
    /\ errors = <<>>
    /\ cursor = 1
    /\ appliedCount = 0
    /\ result = NoResult
    /\ calls = <<>>
    /\ writes = <<>>
    /\ external = <<>>
    /\ metrics = NoMetrics
    /\ runs = 1
    /\ indexBuilds = 0
    /\ otherBuilds = 0
    /\ docIndex = <<>>
    /\ mapCall = NoMapCall

\* run up to the return of detectChanges
DetectChanges ==
    /\ pc = "constructed"
    /\ \E thrown \in BOOLEAN :
           /\ calls' = Append(calls, Call("detect", thrown))
           /\ IF thrown
              THEN LET failed == PipelineFailed(0, 0, <<>>,
                                     Failure("Failed to detect changes", NoSubject))
                   IN  /\ pc' = failed.pc
                       /\ errors' = failed.errors
                       /\ result' = failed.result
                       /\ UNCHANGED changes
              ELSE /\ changes' = input.changes
                   /\ errors' = <<>>
                   /\ IF Len(input.changes) = 0
                      THEN /\ pc' = "done"
                           /\ result' = [resolved |-> TRUE,
                                         value |-> ShortCircuit(<<>>, "No code changes detected")]
                      ELSE /\ pc' = NextPhase("detect")
                           /\ UNCHANGED result
    /\ cursor' = 1
    /\ UNCHANGED <<diffVars, mapVars, input, diffs, affectedDocs, updates, decisions,
                   appliedCount, writes, external, sessionVars, reviewVars, genVars>>

\* parseAndAnalyze: one pass of the loop over the changes
ParseAndAnalyzeNext ==
    /\ pc = "parse"
    /\ cursor <= Len(changes)
    /\ LET done == ParseAndAnalyzeChange(changes[cursor])
       IN  /\ diffs' = diffs \o done.diffs
           /\ errors' = errors \o done.errors
           /\ calls' = Append(calls, Call("parse", done.errors # <<>>))
    /\ metrics' = [metrics EXCEPT !.filesAnalyzed = @ + 1]
    /\ IF cursor = Len(changes)
       THEN pc' = NextPhase("parse") /\ cursor' = 1
       ELSE pc' = pc /\ cursor' = cursor + 1
    /\ UNCHANGED <<diffVars, mapVars, input, changes, affectedDocs, updates, decisions,
                   appliedCount, result, writes, external, runs, indexBuilds,
                   otherBuilds, reviewVars, genVars>>

\* filterDiffsBySeverity, the return that follows it, and the count of the
\* API changes of the surviving diffs
FilterDiffs ==
    /\ pc = "filter"
    /\ diffs' = filterDiffsBySeverity(diffs, input.minSeverity)
    /\ IF Len(diffs') = 0
       THEN /\ pc' = "done"
            /\ result' = [resolved |-> TRUE,
                          value |-> ShortCircuit(errors,
                              "No changes meet the minimum severity threshold")]
            /\ UNCHANGED metrics
       ELSE /\ pc' = NextPhase("filter")
            /\ metrics' = [metrics EXCEPT !.apisChanged = @ + CountAPIChanges(diffs')]
            /\ UNCHANGED result
    /\ UNCHANGED <<diffVars, mapVars, input, changes, affectedDocs, updates, decisions,
                   errors, cursor, appliedCount, calls, writes, external, runs,
                   indexBuilds, otherBuilds, reviewVars, genVars>>

\* await this.documentationMapper.initialize(), which run does not guard;
\* a scan that throws leaves the files indexed before the failing call
InitializeIndex ==
    /\ pc = "index"
    /\ \E thrown \in BOOLEAN :
           /\ calls' = Append(calls, Call("index", thrown))
           /\ IF thrown
              THEN LET failed == PipelineFailed(0, 0, errors,
                                     Failure("EACCES", NoSubject))
                   IN  /\ pc' = failed.pc
                       /\ errors' = failed.errors
                       /\ result' = failed.result
                       /\ \E k \in 0..Len(initialize(fsDocs)) :
                              docIndex' = SubSeq(initialize(fsDocs), 1, k)
              ELSE /\ docIndex' = initialize(fsDocs)
                   /\ pc' = NextPhase("index")
                   /\ UNCHANGED <<errors, result>>
    /\ indexBuilds' = indexBuilds + 1
    /\ UNCHANGED <<diffVars, fsDocs, mapCall, input, changes, diffs, affectedDocs, updates,
                   decisions, cursor, appliedCount, writes, external, metrics, runs,
                   otherBuilds, reviewVars, genVars>>

\* mapAffectedDocumentation and the return that follows it
MapAffectedDocumentation ==
    /\ pc = "map"
    /\ affectedDocs' = mapAffectedDocs(docIndex, CombinedDiff(diffs))
    /\ IF Len(affectedDocs'.files) = 0
       THEN /\ pc' = "done"
            /\ result' = [resolved |-> TRUE,
                          value |-> ShortCircuit(errors,
                              "No documentation files affected by changes")]
       ELSE /\ pc' = NextPhase("map")
            /\ UNCHANGED result
    /\ cursor' = 1
    /\ UNCHANGED <<diffVars, mapVars, input, changes, diffs, updates, decisions, errors,
                   appliedCount, calls, writes, external, sessionVars, reviewVars, genVars>>

\* generateUpdates: one pass of the loop over the affected files
GenerateUpdate ==
    /\ pc = "generate"
    /\ cursor <= Len(affectedDocs.files)
    /\ LET docFile == affectedDocs.files[cursor]
       IN  \E thrown \in BOOLEAN :
               LET next == AfterGenerate(cursor, Len(affectedDocs.files), thrown)
               IN  /\ calls' = Append(calls, Call("generate", thrown))
                   /\ IF thrown
                      THEN /\ errors' = Append(errors,
                                  Failure("Failed to generate update for", docFile.path))
                           /\ UNCHANGED updates
                      ELSE /\ updates' = Append(updates,
                                  DocumentationUpdate(docFile, GeneratedText))
                           /\ UNCHANGED errors
                   /\ IF next > Len(affectedDocs.files)
                      THEN pc' = NextPhase("generate") /\ cursor' = 1
                      ELSE pc' = pc /\ cursor' = next
    /\ UNCHANGED <<diffVars, mapVars, input, changes, diffs, affectedDocs, decisions,
                   appliedCount, result, writes, external, sessionVars, reviewVars, genVars>>

\* reviewUpdates: one presentBatch call for all updates, on the
\* ReviewInterface the constructor made
ReviewUpdates ==
    /\ pc = "review"
    /\ \E thrown \in BOOLEAN :
           /\ calls' = Append(calls, Call("review", thrown))
           /\ IF thrown
              THEN /\ errors' = Append(errors, Failure("Review failed", NoSubject))
                   /\ decisions' = RejectAllOnReviewFailure(updates)
              ELSE /\ decisions' \in presentBatch(updates, DefaultAutoApprove)
                   /\ UNCHANGED errors
    /\ pc' = IF Len(updates) = 0 THEN NextPhase("apply") ELSE NextPhase("review")
    /\ cursor' = 1
    /\ appliedCount' = 0
    /\ UNCHANGED <<diffVars, mapVars, input, changes, diffs, affectedDocs, updates,
                   result, writes, external, sessionVars, reviewVars, genVars>>

\* applyApprovedUpdates: one pass of the loop over the updates
ApplyNext ==
    /\ pc = "apply"
    /\ cursor <= Len(updates)
    /\ LET update == updates[cursor]
           decision == decisions[cursor]
       IN  IF IsApplied(decision)
           THEN \E fault \in WriteFaults :
                    LET content == contentToWrite(update, decision)
                        existed == existsSync(fsDocs, update.filePath)
                        written == writeDocumentationFile(fsDocs, update.filePath,
                                                          content, fault)
                        next == AfterWrite(cursor, Len(updates), written.thrown)
                    IN  /\ fault = "copy fails" => existed
                        /\ fsDocs' = written.disk
                        /\ calls' = Append(calls, Call("write", written.thrown))
                        /\ writes' = Append(writes,
                               [index |-> cursor, filePath |-> update.filePath,
                                content |-> content, existed |-> existed,
                                before |-> IF existed
                                           THEN readFileSync(fsDocs, update.filePath)
                                           ELSE NoContent,
                                thrown |-> written.thrown])
                        /\ IF written.thrown
                           THEN /\ errors' = Append(errors,
                                       Failure("Failed to write", update.filePath))
                                /\ UNCHANGED appliedCount
                           ELSE /\ appliedCount' = appliedCount + 1
                                /\ UNCHANGED errors
                        /\ cursor' = next
                        /\ pc' = IF next > Len(updates) THEN NextPhase("apply") ELSE pc
           ELSE /\ cursor' = cursor + 1
                /\ pc' = IF cursor = Len(updates) THEN NextPhase("apply") ELSE pc
                /\ UNCHANGED <<fsDocs, calls, writes, errors, appliedCount>>
    /\ UNCHANGED <<diffVars, docIndex, mapCall, input, changes, diffs, affectedDocs,
                   updates, decisions, result, external, sessionVars, reviewVars, genVars>>

\* the last return of the try block of run
Complete ==
    /\ pc = "complete"
    /\ result' = [resolved |-> TRUE,
                  value |-> Completed(Len(updates), appliedCount, errors, metrics)]
    /\ pc' = NextPhase("complete")
    /\ UNCHANGED <<diffVars, mapVars, input, changes, diffs, affectedDocs, updates,
                   decisions, errors, cursor, appliedCount, calls, writes, external,
                   sessionVars, reviewVars, genVars>>

\* the documentation file another process works on while the agent runs
ExternalFile == DocPath(1)

\* another process deletes or rewrites its documentation file when the run is
\* about to write it; a change made earlier in the run has the same effect,
\* as run reads no documentation file between indexing and writing
ExternalChange ==
    /\ pc = "apply"
    /\ cursor <= Len(updates)
    /\ IsApplied(decisions[cursor])
    /\ updates[cursor].filePath = ExternalFile
    /\ Len(external) < MaxExternal
    /\ LET filePath == updates[cursor].filePath
       IN  \E change \in {"unlink", "write"} :
               /\ existsSync(fsDocs, filePath)
               /\ fsDocs' = IF change = "unlink" THEN unlinkSync(fsDocs, filePath)
                            ELSE writeFileSync(fsDocs, filePath, ExternalText)
               /\ external' = Append(external, [filePath |-> filePath, change |-> change])
    /\ UNCHANGED <<diffVars, docIndex, mapCall, pc, input, changes, diffs, affectedDocs,
                   updates, decisions, errors, cursor, appliedCount, result, calls, writes,
                   sessionVars, reviewVars, genVars>>

\* run is called again on the same controller, with the same input, after
\* the run before has returned: the locals of run are new, this.state, the
\* mapper and the files are the ones the run before left
RunAgain ==
    /\ pc = "done"
    /\ runs < MaxSessionRuns
    /\ runs' = runs + 1
    /\ pc' = "constructed"
    /\ input' = [input EXCEPT !.docs = fsDocs]
    /\ changes' = <<>>
    /\ diffs' = <<>>
    /\ affectedDocs' = EmptyAffected
    /\ updates' = <<>>
    /\ decisions' = <<>>
    /\ errors' = <<>>
    /\ cursor' = 1
    /\ appliedCount' = 0
    /\ result' = NoResult
    /\ calls' = <<>>
    /\ writes' = <<>>
    /\ external' = <<>>
    /\ UNCHANGED <<diffVars, mapVars, metrics, indexBuilds, otherBuilds, reviewVars, genVars>>

\* another run call in flight on the same controller reaches
\* documentationMapper.initialize(): the shared index is cleared and built
\* from the files as they are now
OtherRunInitialize ==
    /\ runs >= 1
    /\ OtherRunMayResume(pc)
    /\ otherBuilds < MaxOtherBuilds
    /\ docIndex' = initialize(fsDocs)
    /\ indexBuilds' = indexBuilds + 1
    /\ otherBuilds' = otherBuilds + 1
    /\ UNCHANGED <<diffVars, fsDocs, mapCall, pc, input, changes, diffs, affectedDocs,
                   updates, decisions, errors, cursor, appliedCount, result, calls, writes,
                   external, metrics, runs, reviewVars, genVars>>

\* run is called on a controller; the input may ask for auto-approval
SessionInit ==
    /\ \E nc \in 0..MaxSessionChanges, nf \in 0..MaxSessionFiles, autoApprove \in BOOLEAN :
           \E cs \in [1..nc -> ChangePool], fs \in [1..nf -> RunDocPool] :
               /\ input = [changes |-> [i \in 1..nc |->
                               [filePath |-> CodePath(i),
                                changeType |-> cs[i].changeType,
                                content |-> cs[i].content,
                                previousContent |-> cs[i].previousContent]],
                           minSeverity |-> "patch",
                           docs |-> [i \in 1..nf |->
                               [path |-> DocPath(i), content |-> fs[i]]],
                           autoApprove |-> autoApprove]
               /\ fsDocs = input.docs
    /\ pc = "constructed"
    /\ changes = <<>>
    /\ diffs = <<>>
    /\ affectedDocs = EmptyAffected
    /\ updates = <<>>
    /\ decisions = <<>>
    /\ errors = <<>>
    /\ cursor = 1
    /\ appliedCount = 0
    /\ result = NoResult
    /\ calls = <<>>
    /\ writes = <<>>
    /\ external = <<>>
    /\ metrics = NoMetrics
    /\ runs = 1
    /\ indexBuilds = 0
    /\ otherBuilds = 0
    /\ docIndex = <<>>
    /\ mapCall = NoMapCall

(***************************************************************************)
(* Review collaborator (ReviewInterface)                                   *)
(***************************************************************************)
\* a decision as promptForDecision and presentBatch build it
PromptDecision(action, feedback, editedContent) ==
    [action |-> action, feedback |-> feedback, editedContent |-> editedContent]

\* what the reviewer answers to the prompts of one update: the selected
\* action (Undefined after Ctrl+C), the feedback typed and the content typed
Response(action, feedback, edited) ==
    [action |-> action, feedback |-> feedback, edited |-> edited]

NoResponse == Response("none", "", NoContent)

ResponsePool ==
    { Response("approve", "", NoContent),
      Response("reject", "", NoContent),
      Response("reject", "wrong", NoContent),
      Response("edit", "", NoContent),
      Response("edit", "", EditedText),
      Response(Undefined, "", NoContent) }

promptForDecision(update, response) ==
    IF response.action = Undefined
    THEN PromptDecision("reject", "Cancelled by user", NoContent)
    ELSE IF response.action = "reject"
    THEN PromptDecision("reject",
                        IF response.feedback # "" THEN response.feedback ELSE Undefined,
                        NoContent)
    ELSE IF response.action = "edit"
    THEN PromptDecision("edit", Undefined,
                        IF response.edited # NoContent THEN response.edited
                        ELSE update.updatedContent)
    ELSE PromptDecision("approve", Undefined, NoContent)

\* the object logDecision pushes; timestamp and reasoning are left out
LogEntry(update, decision) ==
    [filePath |-> update.filePath, action |-> decision.action,
     feedback |-> decision.feedback,
     hadEditedContent |-> decision.editedContent # NoContent]

\* the text of the log file: a JSON array of entries, other JSON, or no JSON
JSONText(json, items) == [json |-> json, items |-> items]

JSONStringify(items) == JSONText("array", items)

JSONParse(text) == [thrown |-> text.json = "invalid", value |-> text]

\* decisions.push exists on arrays only
HasPush(value) == value.json = "array"

\* what is left of a file whose rewrite broke off after it was truncated
BrokenOffText == JSONText("invalid", <<>>)

LogFile(exists, text) == [exists |-> exists, text |-> text]

NoLogFile == LogFile(FALSE, JSONText("invalid", <<>>))

\* how the file system calls of logDecision can end
LogFaults == {"none", "read fails", "write refused", "write breaks off"}

\* logDecision without its catch: a failure leaves the method
logDecisionUncaught(log, update, decision, fault) ==
    LET parsed == JSONParse(log.text)
        old == IF log.exists THEN parsed.value.items ELSE <<>>
        new == Append(old, LogEntry(update, decision))
    IN  IF log.exists /\ (fault = "read fails" \/ parsed.thrown \/ ~HasPush(parsed.value))
        THEN [log |-> log, outcome |-> "thrown"]
        ELSE IF fault = "write refused" THEN [log |-> log, outcome |-> "thrown"]
        ELSE IF fault = "write breaks off"
        THEN [log |-> LogFile(TRUE, BrokenOffText), outcome |-> "thrown"]
        ELSE [log |-> LogFile(TRUE, JSONStringify(new)), outcome |-> "appended"]

\* logDecision: read and parse the file if it exists, push, write the whole
\* array back; whatever is thrown is caught and reported on the console
logDecision(log, update, decision, fault) ==
    LET parsed == JSONParse(log.text)
        old == IF log.exists THEN parsed.value.items ELSE <<>>
        new == Append(old, LogEntry(update, decision))
    IN  IF log.exists /\ (fault = "read fails" \/ parsed.thrown \/ ~HasPush(parsed.value))
        THEN [log |-> log, outcome |-> "swallowed"]
        ELSE IF fault = "write refused" THEN [log |-> log, outcome |-> "swallowed"]
        ELSE IF fault = "write breaks off"
        THEN [log |-> LogFile(TRUE, BrokenOffText), outcome |-> "swallowed"]
        ELSE [log |-> LogFile(TRUE, JSONStringify(new)), outcome |-> "appended"]

\* the confirm prompt asked after every update but the last
AsksToContinueAlways(decision, i, n) == i < n

\* decision.action === 'reject' && i < updates.length - 1, for the i-th of
\* n updates counted from 1
AsksToContinue(decision, i, n) == decision.action = "reject" /\ i < n

\* a review stopped early that returns without the remaining decisions
SkipRemainingUnfilled(us, i) == <<>>

\* the decisions pushed for updates[i+1..] when the review is stopped early
SkipRemaining(us, i) ==
    [j \in 1..(Len(us) - i) |-> PromptDecision("reject", "Skipped by user", NoContent)]

\* an entry written by an earlier review
PriorEntry ==
    [filePath |-> DocPath(0), action |-> "approve", feedback |-> Undefined,
     hadEditedContent |-> FALSE]

\* the decision log before the review: absent, empty array, one entry, JSON
\* that is no array, and text that is no JSON
LogFilePool ==
    { NoLogFile,
      LogFile(TRUE, JSONText("array", <<>>)),
      LogFile(TRUE, JSONText("array", <<PriorEntry>>)),
      LogFile(TRUE, JSONText("object", <<>>)),
      LogFile(TRUE, JSONText("invalid", <<>>)) }

Review(at, autoApprove, us, ds, i, prompted) ==
    [at |-> at, autoApprove |-> autoApprove, updates |-> us, decisions |-> ds, i |-> i,
     prompted |-> prompted]

\* no presentBatch call is made
ReviewIdle ==
    /\ review = Review("idle", FALSE, <<>>, <<>>, 1, 0)
    /\ logFile = NoLogFile
    /\ logged = <<>>

\* presentBatch(updates) is called on a ReviewInterface
ReviewInit ==
    /\ \E n \in 0..MaxReviewUpdates, autoApprove \in BOOLEAN :
           review = Review(IF n = 0 THEN "returned" ELSE "review", autoApprove,
                           [k \in 1..n |->
                               DocumentationUpdate([path |-> DocPath(k), content |-> <<"g">>],
                                                   GeneratedText)],
                           <<>>, 1, 0)
    /\ logFile \in LogFilePool
    /\ logged = <<>>

\* one pass of the loop of presentBatch up to decisions.push: presentUpdate
\* with its prompts and its logDecision call
PresentUpdate ==
    /\ review.at = "review"
    /\ LET update == review.updates[review.i]
           n == Len(review.updates)
       IN  \E response \in IF review.autoApprove THEN {NoResponse} ELSE ResponsePool,
              fault \in LogFaults :
               LET decision == IF review.autoApprove
                               THEN PromptDecision("approve", Undefined, NoContent)
                               ELSE promptForDecision(update, response)
                   done == logDecision(logFile, update, decision, fault)
               IN  /\ fault = "read fails" => logFile.exists
                   /\ logFile' = done.log
                   /\ logged' = Append(logged,
                          [index |-> review.i, entry |-> LogEntry(update, decision),
                           decision |-> decision, outcome |-> done.outcome,
                           before |-> logFile, after |-> done.log])
                   /\ review' =
                          IF done.outcome = "thrown"
                          THEN [review EXCEPT !.at = "thrown"]
                          ELSE [review EXCEPT
                                   !.decisions = Append(@, decision),
                                   !.prompted = IF review.autoApprove THEN @ ELSE @ + 1,
                                   !.at = IF AsksToContinue(decision, review.i, n)
                                          THEN "continue"
                                          ELSE IF review.i = n THEN "returned" ELSE "review",
                                   !.i = IF AsksToContinue(decision, review.i, n)
                                         THEN @ ELSE @ + 1]
    /\ UNCHANGED <<diffVars, mapVars, pc, input, changes, diffs, affectedDocs, updates,
                   decisions, errors, cursor, appliedCount, result, calls, writes,
                   external, sessionVars, genVars>>

\* the confirm prompt after a rejection: go on, or fill up and return
ContinueReview ==
    /\ review.at = "continue"
    /\ \E continueReview \in {"yes", "no", Undefined} :
           review' =
               IF continueReview = "yes"
               THEN [review EXCEPT !.at = "review", !.i = @ + 1]
               ELSE [review EXCEPT
                        !.decisions = @ \o SkipRemaining(review.updates, review.i),
                        !.at = "returned",
                        !.i = Len(review.updates) + 1]
    /\ UNCHANGED <<diffVars, mapVars, pc, input, changes, diffs, affectedDocs, updates,
                   decisions, errors, cursor, appliedCount, result, calls, writes,
                   external, sessionVars, logFile, logged, genVars>>

(***************************************************************************)
(* AIDocumentationGenerator.generateUpdate                                 *)
(* (src/generation/AIDocumentationGenerator.ts)                            *)
(***************************************************************************)
\* what client.messages.create does on one call: it rejects, or resolves
\* to a message without a text block, to a JSON answer, or to plain text
LLMReply(kind, content) == [kind |-> kind, content |-> content]

\* a code block that opens and closes on one line
OneLineFence == "FENCE js code FENCE"

LLMReplyPool ==
    { LLMReply("rejects", ""),
      LLMReply("no text", ""),
      LLMReply("json", "# Success"),
      LLMReply("json", OneLineFence),
      LLMReply("text", "# Fallback Content"),
      LLMReply("text", "") }

\* callLLM: the text of the first text block; an API error and a message
\* without text are thrown
callLLM(reply) ==
    CASE reply.kind = "rejects" ->
             [thrown |-> TRUE, message |-> "Anthropic API error", text |-> reply]
      [] reply.kind = "no text" ->
             [thrown |-> TRUE, message |-> "No text content in LLM response",
              text |-> reply]
      [] OTHER -> [thrown |-> FALSE, message |-> "", text |-> reply]

GeneratedUpdate(filePath, originalContent, updatedContent, reasoning) ==
    [filePath |-> filePath, originalContent |-> originalContent,
     updatedContent |-> updatedContent, reasoning |-> reasoning]

NoUpdate == GeneratedUpdate("", "", "", "")

\* parseUpdateResponse: the updatedContent field of a JSON answer, else the
\* whole response, trimmed; it does not throw
parseUpdateResponse(response, docFile) ==
    IF response.kind = "json" /\ response.content # ""
    THEN GeneratedUpdate(docFile.path, docFile.content, response.content, "given")
    ELSE GeneratedUpdate(docFile.path, docFile.content, response.content,
                         "Parsed from unstructured response")

\* validate without the check of the code blocks
validateContentOnly(update) ==
    LET errs == IF update.updatedContent = "" THEN <<"Updated content is empty">>
                ELSE <<>>
    IN  [isValid |-> errs = <<>>, errors |-> errs]

\* validate: the errors are an empty updatedContent and a code block that
\* does not end with a fence line of its own
validate(update) ==
    LET empty == IF update.updatedContent = "" THEN <<"Updated content is empty">>
                 ELSE <<>>
        blocks == IF update.updatedContent = OneLineFence
                  THEN <<"Code block has malformed markdown">>
                  ELSE <<>>
        errs == empty \o blocks
    IN  [isValid |-> errs = <<>>, errors |-> errs]

\* the documentation file of the mock of the tests
MockDocFile == [path |-> "docs/api.md", content |-> "# API"]

Generation(at, maxRetries, attempt, replies, update, lastError, error) ==
    [at |-> at, maxRetries |-> maxRetries, attempt |-> attempt, replies |-> replies,
     update |-> update, lastError |-> lastError, error |-> error]

\* no generateUpdate call is made
GeneratorIdle == gen = Generation("idle", 0, 1, <<>>, NoUpdate, Undefined, <<>>)

\* generateUpdate(docFile, context) is called on a generator constructed
\* with maxRetries; let attempt = 1, let lastError = null
GeneratorInit ==
    \E maxRetries \in 0..MaxRetries :
        gen = Generation("loop", maxRetries, 1, <<>>, NoUpdate, Undefined, <<>>)

\* Failed to generate update after <maxRetries> attempts: <lastError?.message>
GenerateFailure(maxRetries, lastError) ==
    <<"Failed to generate update after", DecimalString(maxRetries), "attempts",
      lastError>>

\* one pass of the for loop: callLLM, parseUpdateResponse, validate, and
\* the catch block with its break
Attempt ==
    /\ gen.at = "loop"
    /\ gen.attempt <= gen.maxRetries
    /\ \E reply \in LLMReplyPool :
           LET response == callLLM(reply)
               update == parseUpdateResponse(response.text, MockDocFile)
               validation == validate(update)
               caught == IF response.thrown THEN response.message
                         ELSE "Validation failed"
               replies == Append(gen.replies, reply)
           IN  gen' =
                   IF ~response.thrown /\ validation.isValid
                   THEN [gen EXCEPT !.at = "returned", !.replies = replies,
                                    !.update = update]
                   ELSE IF gen.attempt >= gen.maxRetries
                   THEN [gen EXCEPT !.at = "thrown", !.replies = replies,
                                    !.lastError = caught,
                                    !.error = GenerateFailure(gen.maxRetries, caught)]
                   ELSE [gen EXCEPT !.attempt = @ + 1, !.replies = replies,
                                    !.lastError = caught]
    /\ UNCHANGED <<diffVars, mapVars, pc, input, changes, diffs, affectedDocs, updates,
                   decisions, errors, cursor, appliedCount, result, calls, writes,
                   external, sessionVars, reviewVars>>

\* the loop condition fails before any pass: the throw after the loop
Exhausted ==
    /\ gen.at = "loop"
    /\ gen.attempt > gen.maxRetries
    /\ gen' = [gen EXCEPT !.at = "thrown",
                          !.error = GenerateFailure(gen.maxRetries, gen.lastError)]
    /\ UNCHANGED <<diffVars, mapVars, pc, input, changes, diffs, affectedDocs, updates,
                   decisions, errors, cursor, appliedCount, result, calls, writes,
                   external, sessionVars, reviewVars>>

DiffNext == Analyze \/ CalculateSeverity \/ IsPublicAPIChange

\* A DiffAnalyzer under test: the mapper is constructed and never called.
DiffAnalyzerInit == DiffInit /\ MapIdle /\ ControllerIdle /\ ReviewIdle /\ GeneratorIdle

SpecDiff == DiffAnalyzerInit /\ [][DiffNext]_vars

\* analyze on two versions of one element
CompareAPIsInit == CompareInit /\ MapIdle /\ ControllerIdle /\ ReviewIdle /\ GeneratorIdle

SpecCompare == CompareAPIsInit /\ [][DiffNext]_vars

MapNext == Initialize \/ FindReferences \/ FindCodeExamples \/ MapAffectedDocs

\* A DocumentationMapper under test: the analyzer is constructed and never called.
DocumentationMapperInit == MapInit /\ DiffIdle /\ ControllerIdle /\ ReviewIdle /\ GeneratorIdle

SpecMapper == DocumentationMapperInit /\ [][MapNext]_vars

\* the mapper on documentation with code blocks
CodeExamplesInit ==
    ExamplesInit /\ DiffIdle /\ ControllerIdle /\ ReviewIdle /\ GeneratorIdle

SpecExamples == CodeExamplesInit /\ [][MapNext]_vars

RunNext ==
    \/ DetectChanges \/ ParseAndAnalyzeNext \/ FilterDiffs \/ InitializeIndex
    \/ MapAffectedDocumentation \/ GenerateUpdate \/ ReviewUpdates \/ ApplyNext
    \/ Complete

ControllerNext == RunNext \/ ExternalChange

\* An AgentController whose run is called once; its analyzer and mapper are
\* used by run only.
AgentControllerInit == ControllerInit /\ DiffIdle /\ ReviewIdle /\ GeneratorIdle

SpecController == AgentControllerInit /\ [][ControllerNext]_vars

\* Every external call returns or throws, so the run is never stopped for good
\* at an await.
SpecControllerLive == AgentControllerInit /\ [][ControllerNext]_vars /\ WF_vars(RunNext)

SessionNext == RunNext \/ RunAgain \/ OtherRunInitialize

\* An AgentController on which run is called again after it has returned,
\* while other run calls on it are in flight.
AgentSessionInit == SessionInit /\ DiffIdle /\ ReviewIdle /\ GeneratorIdle

SpecSession == AgentSessionInit /\ [][SessionNext]_vars

ReviewNext == PresentUpdate \/ ContinueReview

\* A ReviewInterface under test: presentBatch is called once; no controller,
\* analyzer or mapper is involved.
ReviewInterfaceInit == ReviewInit /\ DiffIdle /\ MapIdle /\ ControllerIdle /\ GeneratorIdle

SpecReview == ReviewInterfaceInit /\ [][ReviewNext]_vars

GeneratorNext == Attempt \/ Exhausted

AIDocumentationGeneratorInit ==
    GeneratorInit /\ DiffIdle /\ MapIdle /\ ControllerIdle /\ ReviewIdle

SpecGenerator == AIDocumentationGeneratorInit /\ [][GeneratorNext]_vars

(***************************************************************************)
(* Properties of the Diff Engine                                           *)
(***************************************************************************)
NamesOf(apis) == {apis[i].name : i \in 1..Len(apis)}

ModifiedNames(d) == {d.modified[i].old.name : i \in 1..Len(d.modified)}

\* the buckets of d that hold an entry named name
BucketsOf(d, name) ==
    {b \in {"added", "removed", "modified", "unchanged"} :
        CASE b = "added" -> name \in NamesOf(d.added)
          [] b = "removed" -> name \in NamesOf(d.removed)
          [] b = "modified" -> name \in ModifiedNames(d)
          [] b = "unchanged" -> name \in NamesOf(d.unchanged)}

\* C1: after analyze(old, new) every name occurring in old or new is in
\* exactly one of the buckets added / removed / modified / unchanged.
C1_PartitionByName ==
    diffCall.analyzed =>
        \A name \in NamesOf(oldCode) \cup NamesOf(newCode) :
            Cardinality(BucketsOf(diff, name)) = 1

\* the types of the details of one modified pair
DetailTypes(m) == {m.changes[k].type : k \in 1..Len(m.changes)}

PublicIn(apis) == \E e \in Range(apis) : e.isPublic

\* the ordered decision list of the specification, first match wins
SeverityDecisionList(d) ==
    CASE \/ PublicIn(d.removed)
         \/ \E m \in Range(d.modified) :
                m.old.isPublic /\ DetailTypes(m) \cap {"parameters", "return_type"} # {}
           -> "breaking"
      [] OTHER ->
           CASE PublicIn(d.added) -> "major"
             [] OTHER ->
                  CASE \E m \in Range(d.modified) :
                           m.old.isPublic /\ DetailTypes(m) \ {"documentation"} # {}
                         -> "minor"
                    [] OTHER -> "patch"

C3_RemovedPublicIsBreaking ==
    (diffCall.op = "calculateSeverity" /\ PublicIn(diff.removed))
        => diffCall.severity = "breaking"

\* a public removal rated together with a public addition
C3_Witness ==
    /\ diffCall.op = "calculateSeverity"
    /\ PublicIn(diff.removed)
    /\ PublicIn(diff.added)
    /\ diffCall.severity = "breaking"

\* C4: analyze(x, x) returns added = [], removed = [], modified = [] and
\* unchanged = x.
C4_Reflexivity ==
    (diffCall.analyzed /\ oldCode = newCode) =>
        /\ diff.added = <<>>
        /\ diff.removed = <<>>
        /\ diff.modified = <<>>
        /\ diff.unchanged = oldCode

Permuted(s) == {[i \in 1..Len(s) |-> s[p[i]]] : p \in Permutations(1..Len(s))}

SameBuckets(d1, d2) ==
    /\ Range(d1.added) = Range(d2.added)
    /\ Range(d1.removed) = Range(d2.removed)
    /\ Range(d1.modified) = Range(d2.modified)
    /\ Range(d1.unchanged) = Range(d2.unchanged)

\* C5: permuting the elements inside old and/or inside new changes neither
\* the elements (and change details) analyze puts in each bucket nor the
\* severity computed from the result.
C5_OrderIndependence ==
    diffCall.analyzed =>
        \A o \in Permuted(oldCode), n \in Permuted(newCode) :
            /\ SameBuckets(analyze(o, n), diff)
            /\ calculateSeverity(analyze(o, n)) = calculateSeverity(diff)

\* new is old with only the documentation text changed, old being public
DocumentationOnlyEdit(old, new) ==
    /\ old.isPublic
    /\ old.documentation # new.documentation
    /\ new = [old EXCEPT !.documentation = new.documentation]

\* C6: a diff without added and removed elements whose modified pairs carry
\* only documentation details is rated patch; a public element whose old and
\* new versions differ only in documentation yields one modified pair with
\* the single detail documentation, rated patch.
C6_DocumentationOnlyIsPatch ==
    /\ ( /\ diffCall.op = "calculateSeverity"
         /\ diff.added = <<>>
         /\ diff.removed = <<>>
         /\ \A m \in Range(diff.modified) : DetailTypes(m) \subseteq {"documentation"} )
           => diffCall.severity = "patch"
    /\ ( /\ diffCall.analyzed
         /\ Len(oldCode) = 1
         /\ Len(newCode) = 1
         /\ DocumentationOnlyEdit(oldCode[1], newCode[1]) )
           => /\ diff.added = <<>>
              /\ diff.removed = <<>>
              /\ Len(diff.modified) = 1
              /\ [k \in 1..Len(diff.modified[1].changes) |->
                     diff.modified[1].changes[k].type] = <<"documentation">>
              /\ diffCall.op = "calculateSeverity" => diffCall.severity = "patch"

\* the documentation of a public element was edited, analyzed and rated
C6_Witness ==
    /\ diffCall.analyzed
    /\ diffCall.op = "calculateSeverity"
    /\ Len(oldCode) = 1
    /\ Len(newCode) = 1
    /\ DocumentationOnlyEdit(oldCode[1], newCode[1])
    /\ diffCall.severity = "patch"

IdentifierChars == WordChars \cup {"$"}

\* name stands on line as an identifier of its own, not as part of a longer one
OccursAsWholeWord(line, name) ==
    \E start \in 1..(Len(line) - Len(name) + 1) :
        /\ SubSeq(line, start, start + Len(name) - 1) = name
        /\ ~(start > 1 /\ line[start - 1] \in IdentifierChars)
        /\ ~(start + Len(name) <= Len(line) /\ line[start + Len(name)] \in IdentifierChars)

LinesOf(index, filePath) == Split(IndexContent(index, filePath), Newline)

\* C8: findReferences returns a reference for a line only when the name
\* occurs on that line as a whole word; a name occurring only as a proper
\* part of a longer identifier yields no reference.
C8_WholeWordOnly ==
    mapCall.op = "findReferences" =>
        \A r \in Range(mapCall.references) :
            OccursAsWholeWord(LinesOf(docIndex, r.filePath)[r.lineNumber],
                              mapCall.api.name)

HasNoHits(index, api) ==
    findReferences(index, api) = <<>> /\ findCodeExamples(index, api) = <<>>

\* C9: mapAffectedDocs records a changed element in missingDocs iff it is
\* public and has neither references nor code examples; an element without
\* hits, public or not, creates no DocFile entry.
C9_MissingDocsIff ==
    mapCall.op = "mapAffectedDocs" =>
        LET changed == changedAPIs(mapCall.diff)
            IsMissing(api) == api.isPublic /\ HasNoHits(docIndex, api)
        IN  /\ mapCall.affected.missingDocs = SelectSeq(changed, IsMissing)
            /\ \A f \in Range(mapCall.affected.files) :
                   \E api \in Range(changed) :
                       \/ \E r \in Range(findReferences(docIndex, api)) :
                              r.filePath = f.path
                       \/ \E e \in Range(findCodeExamples(docIndex, api)) :
                              e.filePath = f.path

\* a public and a private element without hits were mapped together
C9_Witness ==
    /\ mapCall.op = "mapAffectedDocs"
    /\ docIndex # <<>>
    /\ mapCall.affected.missingDocs # <<>>
    /\ mapCall.affected.files = <<>>
    /\ \E api \in Range(changedAPIs(mapCall.diff)) :
           ~api.isPublic /\ HasNoHits(docIndex, api)

RECURSIVE SumOf(_, _)
\* F(s[1]) + F(s[2]) + ...
SumOf(F(_), s) == IF s = <<>> THEN 0 ELSE F(Head(s)) + SumOf(F, Tail(s))

\* C10: totalReferences is the sum over the changed elements of the number
\* of lines findReferences matches, which is the number of DocReference
\* entries held by all DocFile.references lists; examples add nothing and a
\* line matched by two changed elements counts twice.
C10_TotalReferences ==
    mapCall.op = "mapAffectedDocs" =>
        LET ReferenceCount(api) == Len(findReferences(docIndex, api))
            Stored(f) == Len(f.references)
        IN  /\ mapCall.affected.totalReferences =
                   SumOf(ReferenceCount, changedAPIs(mapCall.diff))
            /\ mapCall.affected.totalReferences =
                   SumOf(Stored, mapCall.affected.files)

\* a file with a code example, and a line referenced by two changed elements
C10_Witness ==
    /\ mapCall.op = "mapAffectedDocs"
    /\ \E f \in Range(mapCall.affected.files) : f.examples # <<>>
    /\ \E a, b \in Range(changedAPIs(mapCall.diff)) :
           /\ a.name # b.name
           /\ \E r \in Range(findReferences(docIndex, a)) :
                  \E q \in Range(findReferences(docIndex, b)) :
                      r.filePath = q.filePath /\ r.lineNumber = q.lineNumber

\* d with another unchanged bucket
WithUnchanged(d, u) == [d EXCEPT !.unchanged = u]

\* d with the old side of every modified pair replaced by o
WithOldSide(d, o) ==
    [d EXCEPT !.modified = [i \in 1..Len(d.modified) |-> [d.modified[i] EXCEPT !.old = o]]]

\* C11: mapAffectedDocs queries only added, removed and the new side of
\* modified pairs: a diff that differs only in its unchanged bucket, or only
\* in the old side of its modified pairs, yields the same files,
\* totalReferences and missingDocs.
C11_OnlyChangedAreQueried ==
    mapCall.op = "mapAffectedDocs" =>
        /\ \A u \in SeqsUpTo(MapElements, 1) :
               mapAffectedDocs(docIndex, WithUnchanged(mapCall.diff, u)) = mapCall.affected
        /\ \A o \in MapElements :
               mapAffectedDocs(docIndex, WithOldSide(mapCall.diff, o)) = mapCall.affected

\* an unchanged element and the old side of a modified pair are referenced
\* in the index, the new side is not, and no file is affected
C11_Witness ==
    /\ mapCall.op = "mapAffectedDocs"
    /\ \E e \in Range(mapCall.diff.unchanged) : findReferences(docIndex, e) # <<>>
    /\ \E m \in Range(mapCall.diff.modified) :
           /\ findReferences(docIndex, m.old) # <<>>
           /\ HasNoHits(docIndex, m.new)
    /\ mapCall.affected.files = <<>>

(***************************************************************************)
(* Properties of the Agent Orchestrator                                    *)
(***************************************************************************)
CallsOf(names) == {i \in 1..Len(calls) : calls[i].call \in names}

FailedCallsOf(names) == {i \in CallsOf(names) : calls[i].thrown}

\* the calls run makes outside every per-phase guard: detectChanges rethrows
\* what the detector throws, and the index build has no guard
Escaped == FailedCallsOf({"detect", "index"}) # {}

ErrorsSaying(errs, message) == {i \in 1..Len(errs) : errs[i].message = message}

\* the run returned early because there was nothing to do
ShortCircuited ==
    /\ result.resolved
    /\ ~Escaped
    /\ \/ changes = <<>>
       \/ CallsOf({"index"}) = {} /\ diffs = <<>>
       \/ CallsOf({"index"}) # {} /\ affectedDocs.files = <<>>

\* C12: a run that ends through a short-circuit (no changes, no diff at or
\* above the minimum severity, no affected documentation file) reports
\* success with zero generated and zero applied updates, never calls the
\* generator, the review or the file writer, and leaves every documentation
\* and backup file alone; with zero changes it says so in the summary.
C12_ShortCircuit ==
    ShortCircuited =>
        /\ result.value.success
        /\ result.value.updatesGenerated = 0
        /\ result.value.updatesApplied = 0
        /\ CallsOf({"generate", "review", "write"}) = {}
        /\ writes = <<>>
        /\ fsDocs = input.docs
        /\ changes = <<>> => result.value.summary = <<"No code changes detected">>

\* no documentation file is affected, after a parse failure was recorded
C12_Witness ==
    /\ ShortCircuited
    /\ result.value.summary = <<"No documentation files affected by changes">>
    /\ result.value.errors # <<>>
    /\ fsDocs # <<>>

\* C13: success is false iff an exception escaped every per-phase guard;
\* then the escaping error is the last of errors and the counts reached so
\* far are returned.  Failures of single items (parse, generate, review,
\* write) are recorded in errors and leave success true.
C13_SuccessIffNoEscape ==
    result.resolved =>
        /\ result.value.success = ~Escaped
        /\ result.value.errors = errors
        /\ Len(errors) = Cardinality(FailedCallsOf({"detect", "parse", "index", "generate",
                                                    "review", "write"}))
        /\ result.value.updatesGenerated = Len(updates)
        /\ result.value.updatesApplied = Cardinality(CallsOf({"write"}) \ FailedCallsOf({"write"}))
        /\ Escaped => errors[Len(errors)].message \in {"Failed to detect changes", "EACCES"}

\* the index build threw after a parse failure was recorded
C13_Witness ==
    /\ result.resolved
    /\ ~result.value.success
    /\ Len(result.value.errors) = 2
    /\ result.value.errors[1].message = "Failed to parse"

\* C14: run never lets an exception reach its caller: when every external
\* call returns or throws, every run ends up resolved to one AgentResult.
C14_RunResolves == <>[](pc = "done" /\ result.resolved)

\* a run that resolved although the change detection threw
C14_Witness ==
    /\ pc = "done"
    /\ result.resolved
    /\ FailedCallsOf({"detect"}) # {}

\* the place of an external call in the order of the phases
PhaseRank(call) ==
    CASE call = "detect" -> 1
      [] call = "parse" -> 2
      [] call = "index" -> 3
      [] call = "generate" -> 4
      [] call = "review" -> 5
      [] call = "write" -> 6

\* C15: the phases of one run come in the order detect, analyze, map,
\* generate, review, apply, each at most once: no external call of an
\* earlier phase follows a call of a later phase, and the detection, the
\* index build and the review batch are called at most once.
C15_PhaseOrder ==
    /\ \A i \in 1..(Len(calls) - 1) :
           PhaseRank(calls[i].call) <= PhaseRank(calls[i + 1].call)
    /\ \A name \in {"detect", "index", "review"} : Cardinality(CallsOf({name})) <= 1

\* a finished run with two parses, two generator calls, a review and two writes
C15_Witness ==
    /\ pc = "done"
    /\ Cardinality(CallsOf({"parse"})) = 2
    /\ Cardinality(CallsOf({"generate"})) = 2
    /\ Cardinality(CallsOf({"review"})) = 1
    /\ Cardinality(CallsOf({"write"})) = 2

\* the content of filePath when the run started, NoContent for no file
InitialContent(filePath) ==
    IF existsSync(input.docs, filePath) THEN readFileSync(input.docs, filePath)
    ELSE NoContent

\* C16: the apply phase writes a file only for a decision approve or edit at
\* the index of its update; it writes the edited content for an edit with
\* non-empty edited content and the generated content otherwise; the file of
\* a rejected update is not written and gets no backup.
C16_WritesFollowDecisions ==
    /\ \A k \in 1..Len(writes) :
           LET w == writes[k]
               update == updates[w.index]
               decision == decisions[w.index]
           IN  /\ decision.action \in {"approve", "edit"}
               /\ w.filePath = update.filePath
               /\ w.content = IF decision.action = "edit" /\ decision.editedContent # NoContent
                              THEN decision.editedContent
                              ELSE update.updatedContent
    /\ \A i \in 1..Len(decisions) :
           decisions[i].action = "reject" =>
               /\ existsSync(fsDocs, updates[i].filePath)
               /\ readFileSync(fsDocs, updates[i].filePath) = InitialContent(updates[i].filePath)
               /\ ~existsSync(fsDocs, BackupPath(updates[i].filePath))

\* a finished run that wrote an edited text and, for an edit without text,
\* the generated text, and rejected a third update
C16_Witness ==
    /\ pc = "done"
    /\ \E k \in 1..Len(writes) : writes[k].content = EditedText /\ ~writes[k].thrown
    /\ \E k \in 1..Len(writes) :
           /\ decisions[writes[k].index] = ReviewDecision("edit", NoContent)
           /\ writes[k].content = GeneratedText
           /\ ~writes[k].thrown
    /\ \E i \in 1..Len(decisions) : decisions[i].action = "reject"

\* C17: when the review fails, one error is recorded for it, every update
\* counts as rejected, nothing is applied, no documentation or backup file
\* is written, and the run still succeeds.
C17_ReviewFailureRejectsAll ==
    FailedCallsOf({"review"}) # {} =>
        /\ Cardinality(ErrorsSaying(errors, "Review failed")) = 1
        /\ Len(decisions) = Len(updates)
        /\ \A i \in 1..Len(decisions) : decisions[i].action = "reject"
        /\ appliedCount = 0
        /\ writes = <<>>
        /\ fsDocs = input.docs
        /\ result.resolved => result.value.success /\ result.value.updatesApplied = 0

\* the review of two generated updates failed and the run finished
C17_Witness ==
    /\ pc = "done"
    /\ FailedCallsOf({"review"}) # {}
    /\ Len(updates) = 2
    /\ result.value.updatesGenerated = 2

\* C18: when the apply phase overwrites an existing file, the copy to the
\* backup path is made before the write: after a successful write the backup
\* holds what the file held just before that write; a file that did not
\* exist gets no backup.
C18_BackupBeforeWrite ==
    \A k \in 1..Len(writes) :
        LET w == writes[k]
        IN  /\ (w.existed /\ ~w.thrown) =>
                   /\ existsSync(fsDocs, BackupPath(w.filePath))
                   /\ readFileSync(fsDocs, BackupPath(w.filePath)) = w.before
                   /\ readFileSync(fsDocs, w.filePath) = w.content
            /\ ~w.existed => ~existsSync(fsDocs, BackupPath(w.filePath))

\* a file another process had rewritten since indexing was overwritten: the
\* backup holds the text of the other process
C18_Witness ==
    \E k \in 1..Len(writes) :
        /\ writes[k].existed
        /\ ~writes[k].thrown
        /\ writes[k].before = ExternalText
        /\ readFileSync(fsDocs, BackupPath(writes[k].filePath)) = ExternalText

AppliedDecisions == {i \in 1..Len(decisions) : decisions[i].action \in {"approve", "edit"}}

ParseFails(change) ==
    \/ ~change.content.syntaxOk
    \/ /\ change.changeType # "added"
       /\ Truthy(change.previousContent)
       /\ ~change.previousContent.syntaxOk

\* the change is an addition, or it comes with its previous content
HasBothSides(change) == change.changeType = "added" \/ Truthy(change.previousContent)

\* C20: a parse failure on one changed file adds one error naming the file
\* and no diff for it; the other changes are still parsed and analyzed, in
\* order.
C20_ParseFailureSkipsFile ==
    pc = "filter" =>
        LET failing == SelectSeq(changes, ParseFails)
            Analyzed(change) == ~ParseFails(change) /\ HasBothSides(change)
        IN  /\ errors = [i \in 1..Len(failing) |->
                            Failure("Failed to parse", failing[i].filePath)]
            /\ Len(diffs) = Len(SelectSeq(changes, Analyzed))
            /\ Cardinality(CallsOf({"parse"})) = Len(changes)

\* the first of two changes did not parse, the second was analyzed
C20_Witness ==
    /\ pc = "filter"
    /\ Len(changes) = 2
    /\ ParseFails(changes[1])
    /\ ~ParseFails(changes[2])
    /\ Len(diffs) = 1
    /\ Len(errors) = 1

\* the generator calls of the run, in call order
GenerateCalls == SelectSeq(calls, LAMBDA c : c.call = "generate")

\* C21: a generator failure for one affected file adds one error naming the
\* file and no update for it; every affected file is sent to the generator,
\* in order, and updatesGenerated is the number of files whose generation
\* succeeded.
C21_GenerateFailureIsLocal ==
    (pc \in {"review", "apply", "complete"} \/ (pc = "done" /\ CallsOf({"generate"}) # {})) =>
        LET files == affectedDocs.files
            Succeeded(i) == ~GenerateCalls[i].thrown
            good == SelectSeq([i \in 1..Len(files) |-> i], Succeeded)
            bad == SelectSeq([i \in 1..Len(files) |-> i], LAMBDA i : ~Succeeded(i))
        IN  /\ Len(GenerateCalls) = Len(files)
            /\ updates = [k \in 1..Len(good) |->
                              DocumentationUpdate(files[good[k]], GeneratedText)]
            /\ SelectSeq(errors, LAMBDA e : e.message = "Failed to generate update for") =
                   [k \in 1..Len(bad) |->
                       Failure("Failed to generate update for", files[bad[k]].path)]
            /\ result.resolved => result.value.updatesGenerated = Len(good)

\* of three affected files the generator failed on the second: two updates,
\* one error, and the run completed
C21_Witness ==
    /\ pc = "done"
    /\ Len(affectedDocs.files) = 3
    /\ Len(GenerateCalls) = 3
    /\ GenerateCalls[2].thrown
    /\ ~GenerateCalls[1].thrown /\ ~GenerateCalls[3].thrown
    /\ result.value.updatesGenerated = 2
    /\ Len(updates) = 2
    /\ updates[2].filePath = affectedDocs.files[3].path

\* C22: a failure during the map phase, the build of the documentation
\* index included, is recorded in errors and handled as an empty
\* AffectedDocumentation: the run ends with success = true through the
\* short-circuit "No documentation files affected by changes".
C22_MappingErrorIsRecoverable ==
    (result.resolved /\ FailedCallsOf({"index"}) # {}) =>
        /\ result.value.success
        /\ result.value.summary = <<"No documentation files affected by changes">>
        /\ result.value.errors = errors
        /\ affectedDocs = EmptyAffected

\* C30: for every detected change whose parsing succeeds the analyze phase
\* produces exactly one diff: for a pure addition the synthetic diff with
\* every parsed element in added, for every other change the Diff Engine
\* result on (parsed previous content, parsed new content).
C30_OneDiffPerParsedChange ==
    pc = "filter" =>
        LET Parsed(change) == ~ParseFails(change)
            parsed == SelectSeq(changes, Parsed)
        IN  diffs = [k \in 1..Len(parsed) |->
                        IF parsed[k].changeType = "added"
                        THEN [EmptyDiff EXCEPT !.added = parse(parsed[k].content).apis]
                        ELSE analyze(parse(parsed[k].previousContent).apis,
                                     parse(parsed[k].content).apis)]

(***************************************************************************)
(* Properties of the Review collaborator                                   *)
(***************************************************************************)
\* C26: presentBatch returns exactly one decision per update, in update
\* order, whatever the reviewer answers (approve, reject, edit, Ctrl+C,
\* stopping the review early): the decision at index k was taken for the
\* update at index k, and the updates not presented are rejected.
C26_OneDecisionPerUpdate ==
    /\ Len(review.decisions) <= Len(review.updates)
    /\ review.at = "returned" => Len(review.decisions) = Len(review.updates)
    /\ \A k \in 1..Len(logged) :
           /\ logged[k].index = k
           /\ logged[k].entry.filePath = review.updates[k].filePath
           /\ k <= Len(review.decisions) => review.decisions[k] = logged[k].decision
    /\ review.at = "returned" =>
           \A k \in (Len(logged) + 1)..Len(review.updates) :
               review.decisions[k] = PromptDecision("reject", "Skipped by user", NoContent)

\* three updates: the first edited, the second left with Ctrl+C, and the
\* review stopped before the third
C26_Witness ==
    /\ review.at = "returned"
    /\ Len(review.updates) = 3
    /\ Len(review.decisions) = 3
    /\ review.decisions[1].action = "edit"
    /\ review.decisions[2].feedback = "Cancelled by user"
    /\ review.decisions[3].feedback = "Skipped by user"
    /\ Len(logged) = 2

\* the logDecision calls that did not write their entry
SwallowedLogs == {k \in 1..Len(logged) : logged[k].outcome = "swallowed"}

\* C27: logDecision never throws: a failure to read, parse or write the
\* decision log is swallowed, presentUpdate still returns the decision that
\* was taken, and presentBatch does not fail.
C27_LogFailureIsSwallowed ==
    /\ review.at # "thrown"
    /\ Len(review.decisions) >= Len(logged)
    /\ \A k \in 1..Len(logged) :
           /\ logged[k].outcome \in {"appended", "swallowed"}
           /\ review.decisions[k] = logged[k].decision

\* a review of two updates that returned an edit and an approval although
\* the log could be written for neither
C27_Witness ==
    /\ review.at = "returned"
    /\ Len(review.updates) = 2
    /\ SwallowedLogs = {1, 2}
    /\ logged[1].before.exists /\ ~HasPush(logged[1].before.text)
    /\ review.decisions[1].action = "edit"
    /\ review.decisions[2].action = "approve"

\* the entries a reader of the log file finds
EntriesOf(file) == IF file.exists /\ HasPush(file.text) THEN file.text.items ELSE <<>>

\* C28: the decision log is append-only: a successful logDecision leaves the
\* earlier entries unchanged and in order and adds one entry at the end, a
\* failed logDecision leaves the file as it was, and the number of entries
\* never decreases.
C28_AppendOnly ==
    \A k \in 1..Len(logged) :
        LET before == logged[k].before
            after == logged[k].after
        IN  /\ logged[k].outcome = "appended" =>
                   /\ after.exists
                   /\ EntriesOf(after) = Append(EntriesOf(before), logged[k].entry)
            /\ logged[k].outcome # "appended" => after = before
            /\ Len(EntriesOf(after)) >= Len(EntriesOf(before))

\* C29: the decision log records one entry per review decision: for every
\* decision presentBatch returns, the ones given to skipped updates
\* included, logDecision is called once for that update with that decision,
\* so that one entry for the update's file is appended when the call
\* succeeds.
C29_OneEntryPerDecision ==
    review.at = "returned" =>
        \A k \in 1..Len(review.decisions) :
            /\ Cardinality({j \in 1..Len(logged) : logged[j].index = k}) = 1
            /\ \A j \in 1..Len(logged) :
                   logged[j].index = k =>
                       /\ logged[j].entry = LogEntry(review.updates[k], review.decisions[k])
                       /\ logged[j].outcome = "appended" =>
                              logged[j].after.text.items[Len(logged[j].after.text.items)] =
                                  logged[j].entry

(***************************************************************************)
(* Properties of a controller that is used for more than one run           *)
(***************************************************************************)
\* the run went through all phases and returned the summary of buildSummary
CompletedRun ==
    /\ pc = "done"
    /\ result.resolved
    /\ result.value.summary[1] = "Generated"

\* C23: no run shares mutable state with another run: when run is called
\* twice in sequence on one controller, the files analyzed and the API
\* changes found that the summary of a run reports are those of that run.
C23_MetricsPerRun ==
    CompletedRun =>
        LET summary == result.value.summary
        IN  /\ summary[Len(summary) - 3] = "Analyzed"
            /\ summary[Len(summary) - 2] = DecimalString(Len(changes))
            /\ summary[Len(summary) - 1] = "Found"
            /\ summary[Len(summary)] = DecimalString(CountAPIChanges(diffs))

\* C24: between the index build of a run and the end of its mapping phase
\* the index does not change: the mapping does not modify it, and no other
\* run call in flight on the controller clears or rebuilds it.
C24_IndexIsSnapshot ==
    [][pc = "map" => (docIndex' = docIndex /\ indexBuilds' = indexBuilds)]_vars

\* the second run on the controller has built the index and maps a change
\* to documentation, after another run call in flight rebuilt the index
\* while this run waited for its change detection
C24_Witness ==
    /\ pc = "map"
    /\ runs = 2
    /\ otherBuilds = 1
    /\ indexBuilds = 3
    /\ docIndex # <<>>
    /\ diffs # <<>>

\* C25: when the run input has autoApprove = true, every generated update
\* gets an approve decision and is applied: updatesApplied equals
\* updatesGenerated when no write fails.
C25_AutoApprove ==
    (input.autoApprove /\ CallsOf({"review"}) # {} /\ FailedCallsOf({"review"}) = {}
         /\ pc \in {"apply", "complete", "done"}) =>
        /\ \A i \in 1..Len(decisions) : decisions[i].action = "approve"
        /\ (result.resolved /\ FailedCallsOf({"write"}) = {}) =>
               result.value.updatesApplied = result.value.updatesGenerated

(***************************************************************************)
(* Properties of the severity filter                                       *)
(***************************************************************************)
\* patch < minor < major < breaking
SeverityOrder == <<"patch", "minor", "major", "breaking">>

\* the severities at or above a minimum, in SeverityOrder
AtOrAbove(minSeverity) ==
    { SeverityOrder[j] : j \in { k \in 1..4 :
        \E m \in 1..k : SeverityOrder[m] = minSeverity } }

KindOrder == <<"signature", "parameters", "return_type", "documentation">>

\* the parameter list of an element, a missing list read as the empty one
ParameterList(api) == IF api.parameters.defined THEN api.parameters.items ELSE <<>>

\* the field of the element that a kind of change is about differs
FieldDiffers(kind, old, new) ==
    CASE kind = "signature" -> old.signature # new.signature
      [] kind = "parameters" -> ParameterList(old) # ParameterList(new)
      [] kind = "return_type" -> old.returnType # new.returnType
      [] kind = "documentation" -> old.documentation # new.documentation

\* the kinds of a change list, in list order
KindsOf(details) == [k \in 1..Len(details) |-> details[k].type]

\* C32: for a name present in both versions the change list holds each
\* kind at most once, in the order signature, parameters, return_type,
\* documentation, a kind being present exactly when its field differs; the
\* pair is in modified exactly when the list is non-empty and in unchanged
\* otherwise, so every modified pair has a non-empty change list.
C32_ChangeListPerPair ==
    diffCall.analyzed =>
        /\ \A i \in 1..Len(oldCode) :
               MapHas(newCode, oldCode[i].name) =>
                   LET old == oldCode[i]
                       new == MapGet(newCode, old.name)
                       expected == SelectSeq(KindOrder,
                                       LAMBDA kind : FieldDiffers(kind, old, new))
                   IN  IF expected # <<>>
                       THEN /\ \E m \in Range(diff.modified) :
                                   /\ m.old = old
                                   /\ m.new = new
                                   /\ KindsOf(m.changes) = expected
                            /\ old \notin Range(diff.unchanged)
                       ELSE /\ old \in Range(diff.unchanged)
                            /\ \A m \in Range(diff.modified) : m.old # old
        /\ \A m \in Range(diff.modified) :
               /\ m.changes # <<>>
               /\ KindsOf(m.changes) =
                      SelectSeq(KindOrder, LAMBDA kind : FieldDiffers(kind, m.old, m.new))

\* all four fields of getUser differ: the pair is modified with the four
\* kinds in the fixed order
C32_Witness ==
    /\ diffCall.analyzed
    /\ Len(diff.modified) = 1
    /\ diff.unchanged = <<>>
    /\ KindsOf(diff.modified[1].changes) = KindOrder
    /\ \A k \in 1..4 : FieldDiffers(KindOrder[k], oldCode[1], newCode[1])

\* the parameters details reported for the compared pair
ParameterDetails ==
    IF diff.modified = <<>> THEN <<>>
    ELSE SelectSeq(diff.modified[1].changes, LAMBDA c : c.type = "parameters")

\* C33: the parameter comparison yields at most one parameters detail per
\* pair: one when the two lists differ in length, otherwise one exactly
\* when some position differs in name, type, optional flag or default value
\* (reporting the first such position), and none when the lists are
\* positionally equal; a missing list is treated as an empty list.
C33_OneParametersDetail ==
    (diffCall.analyzed /\ Len(oldCode) = 1 /\ Len(newCode) = 1
        /\ oldCode[1].name = newCode[1].name) =>
        LET oldParams == ParameterList(oldCode[1])
            newParams == ParameterList(newCode[1])
            differing == {i \in 1..Len(oldParams) : oldParams[i] # newParams[i]}
        IN  /\ Len(ParameterDetails) <= 1
            /\ IF Len(oldParams) # Len(newParams)
               THEN ParameterDetails =
                        <<[type |-> "parameters",
                           description |-> <<"Parameter count changed from",
                                             DecimalString(Len(oldParams)), "to",
                                             DecimalString(Len(newParams))>>]>>
               ELSE IF differing # {}
               THEN \E first \in differing :
                        /\ \A j \in differing : first <= j
                        /\ ParameterDetails =
                               <<[type |-> "parameters",
                                  description |-> <<"Parameter", oldParams[first].name,
                                                    "changed">>]>>
               ELSE ParameterDetails = <<>>

\* two lists of two parameters that differ at both positions: the one
\* detail names the first parameter of the old list
C33_Witness ==
    /\ diffCall.analyzed
    /\ Len(ParameterList(oldCode[1])) = 2
    /\ Len(ParameterList(newCode[1])) = 2
    /\ \A i \in 1..2 : ParameterList(oldCode[1])[i] # ParameterList(newCode[1])[i]
    /\ ParameterList(oldCode[1])[1].name = "b"
    /\ ParameterList(oldCode[1])[2].name = "a"
    /\ Len(ParameterDetails) = 1
    /\ ParameterDetails[1].description = <<"Parameter", "b", "changed">>

(***************************************************************************)
(* Properties of the code examples of the Documentation Mapper             *)
(***************************************************************************)
\* C34: findCodeExamples returns a fenced block only when it is closed by
\* a bare fence line and its body contains element.name as a whole word;
\* startLine and endLine are the 1-based line numbers of the first and the
\* last body line (endLine - startLine + 1 is the number of body lines),
\* and language is the tag of the opening fence, or empty without a tag.
C34_CodeExamples ==
    mapCall.op = "findCodeExamples" =>
        \A e \in Range(mapCall.examples) :
            LET lines == LinesOf(docIndex, e.filePath)
                open == e.startLine - 1
                close == e.endLine + 1
                body == SubSeq(lines, e.startLine, e.endLine)
            IN  /\ open >= 1
                /\ close <= Len(lines)
                /\ e.startLine <= e.endLine
                /\ SubSeq(lines[open], 1, 3) = Fence
                /\ lines[close] = Fence
                /\ \A k \in 1..Len(body) : body[k] # Fence
                /\ e.code = Join(body, Newline)
                /\ e.endLine - e.startLine + 1 = Len(body)
                /\ e.language = SubSeq(lines[open], 4, Len(lines[open]))
                /\ OccursAsWholeWord(e.code, mapCall.api.name)

(***************************************************************************)
(* Properties of the confirm prompt of presentBatch                        *)
(***************************************************************************)
\* the decision given to an update that was not presented
Skipped == PromptDecision("reject", "Skipped by user", NoContent)

\* C35: the question whether to continue is asked only after a reject
\* decision on an update that is not the last one; after the answer no
\* every remaining update receives reject / Skipped by user and is neither
\* presented nor prompted, after the answer yes the next update is
\* presented as usual.
C35_ContinuePrompt ==
    [][/\ review'.at = "continue" =>
              /\ review.at = "review"
              /\ review'.i = review.i
              /\ review'.i < Len(review'.updates)
              /\ Len(review'.decisions) = review'.i
              /\ review'.decisions[review'.i].action = "reject"
       /\ review.at = "continue" =>
              \/ /\ review'.at = "review"
                 /\ review'.i = review.i + 1
                 /\ review'.decisions = review.decisions
                 /\ review'.i <= Len(review'.updates)
                 /\ logged' = logged
              \/ /\ review'.at = "returned"
                 /\ Len(review'.decisions) = Len(review'.updates)
                 /\ SubSeq(review'.decisions, 1, review.i) = review.decisions
                 /\ \A j \in (review.i + 1)..Len(review'.updates) :
                        review'.decisions[j] = Skipped
                 /\ review'.prompted = review.prompted
                 /\ logged' = logged
                 /\ \A k \in 1..Len(logged) : logged[k].index <= review.i
       /\ review.at = "review" =>
              /\ Len(logged') = Len(logged) + 1
              /\ logged'[Len(logged')].index = review.i
              /\ review'.at # "thrown" =>
                     review'.decisions =
                         Append(review.decisions, logged'[Len(logged')].decision)]_vars

\* of three updates the first was rejected and the review went on, the
\* second was rejected and the review was stopped: the third is skipped
C35_Witness ==
    /\ review.at = "returned"
    /\ ~review.autoApprove
    /\ Len(review.updates) = 3
    /\ Len(logged) = 2
    /\ review.prompted = 2
    /\ review.decisions[1].action = "reject"
    /\ review.decisions[2].action = "reject"
    /\ review.decisions[2] # Skipped
    /\ review.decisions[3] = Skipped

(***************************************************************************)
(* Properties of the retry loop of the generator                           *)
(***************************************************************************)
\* the reply carries content that is not empty and whose code blocks are
\* well formed
Usable(reply) ==
    /\ reply.kind \in {"json", "text"}
    /\ reply.content \notin {"", OneLineFence}

\* C36: generateUpdate calls the LLM at most maxRetries times for one
\* file: it returns the update of the first attempt whose response parses
\* and passes validation and makes no further call after that; it fails
\* with Failed to generate update after <maxRetries> attempts only after
\* exactly maxRetries failed attempts, a response failing validation being
\* a failed attempt.
C36_RetryLoop ==
    /\ [](/\ Len(gen.replies) <= gen.maxRetries
          /\ gen.at = "loop" =>
                 /\ Len(gen.replies) = gen.attempt - 1
                 /\ \A k \in 1..Len(gen.replies) : ~Usable(gen.replies[k])
          /\ gen.at = "returned" =>
                 LET n == Len(gen.replies)
                 IN  /\ n >= 1
                     /\ Usable(gen.replies[n])
                     /\ \A k \in 1..(n - 1) : ~Usable(gen.replies[k])
                     /\ gen.update.updatedContent = gen.replies[n].content
                     /\ gen.update.filePath = MockDocFile.path
                     /\ gen.error = <<>>
          /\ gen.at = "thrown" =>
                 /\ Len(gen.replies) = gen.maxRetries
                 /\ \A k \in 1..Len(gen.replies) : ~Usable(gen.replies[k])
                 /\ gen.update = NoUpdate
                 /\ SubSeq(gen.error, 1, 3) =
                        <<"Failed to generate update after",
                          DecimalString(gen.maxRetries), "attempts">>)
    /\ [][gen.at \in {"returned", "thrown"} => gen' = gen]_vars

\* with maxRetries 3 the API failed, the next answer failed validation, and
\* the third answer was returned
C36_Witness ==
    /\ gen.at = "returned"
    /\ gen.maxRetries = 3
    /\ Len(gen.replies) = 3
    /\ gen.replies[1].kind = "rejects"
    /\ gen.replies[2] = LLMReply("json", OneLineFence)
    /\ gen.update.updatedContent = "# Success"

(***************************************************************************)
(* Properties of the counts a completed run reports                        *)
(***************************************************************************)
\* C37: in every run that reaches completion updatesApplied <=
\* updatesGenerated <= number of affected documentation files, and the
\* number of recorded errors is the number of parse failures plus mapping
\* failures plus generation failures plus review failures plus write
\* failures of the run; a run whose mapping failed does not reach
\* completion, so that term is zero.
C37_CountsOfCompletedRun ==
    CompletedRun =>
        /\ result.value.updatesApplied <= result.value.updatesGenerated
        /\ result.value.updatesGenerated <= Len(affectedDocs.files)
        /\ result.value.updatesGenerated = Len(updates)
        /\ result.value.updatesApplied =
               Cardinality(CallsOf({"write"}) \ FailedCallsOf({"write"}))
        /\ ErrorsSaying(result.value.errors, "Failed to map documentation") = {}
        /\ Len(result.value.errors) =
               Cardinality(FailedCallsOf({"parse"}))
                   + Cardinality(FailedCallsOf({"generate"}))
                   + Cardinality(FailedCallsOf({"review"}))
                   + Cardinality(FailedCallsOf({"write"}))

\* a completed run with one failure of each kind but the review: a file
\* that did not parse, two affected files of which one was not generated,
\* and the one update approved but not written; 3 errors, 1 generated,
\* 0 applied
C37_Witness ==
    /\ CompletedRun
    /\ Cardinality(FailedCallsOf({"parse"})) = 1
    /\ Len(affectedDocs.files) = 2
    /\ Cardinality(FailedCallsOf({"generate"})) = 1
    /\ Cardinality(FailedCallsOf({"review"})) = 0
    /\ Cardinality(FailedCallsOf({"write"})) = 1
    /\ Len(result.value.errors) = 3
    /\ result.value.updatesGenerated = 1
    /\ result.value.updatesApplied = 0

(***************************************************************************)
(* Properties of the files a run writes                                    *)
(***************************************************************************)
\* the entries of a list of records with a path are about different files
DistinctBy(items, PathOf(_)) ==
    \A i \in 1..Len(items), j \in 1..Len(items) :
        PathOf(items[i]) = PathOf(items[j]) => i = j

\* C38: within one run every documentation file path is the target of at
\* most one generated update and is written at most once, so a backup file
\* made in the run holds the content the file had before the run changed it.
C38_OneUpdatePerFile ==
    /\ DistinctBy(affectedDocs.files, LAMBDA f : f.path)
    /\ DistinctBy(updates, LAMBDA u : u.filePath)
    /\ DistinctBy(writes, LAMBDA w : w.filePath)
    /\ \A i \in 1..Len(updates) :
           \E k \in 1..Len(affectedDocs.files) :
               affectedDocs.files[k].path = updates[i].filePath
    /\ \A k \in 1..Len(writes) :
           LET w == writes[k]
               backup == BackupPath(w.filePath)
           IN  /\ existsSync(fsDocs, backup) =>
                      /\ w.existed
                      /\ readFileSync(fsDocs, backup) = w.before
                      /\ external = <<>> => w.before = InitialContent(w.filePath)
               /\ (w.existed /\ ~w.thrown) => existsSync(fsDocs, backup)

\* two changed source files both define getUser and one documentation file
\* mentions it: two references, one DocFile, one update, one write, and the
\* backup holds the text the file had when the run began
C38_Witness ==
    /\ pc = "done"
    /\ Len(diffs) = 2
    /\ Len(affectedDocs.files) = 1
    /\ Len(affectedDocs.files[1].references) = 2
    /\ Len(updates) = 1
    /\ Len(writes) = 1
    /\ ~writes[1].thrown
    /\ readFileSync(fsDocs, writes[1].filePath) = GeneratedText
    /\ readFileSync(fsDocs, BackupPath(writes[1].filePath)) =
           InitialContent(writes[1].filePath)

====
